---------------------------- MODULE Spec2Model ----------------------------
(***************************************************************************)
(* A model of The Number: the budget calculation engine                    *)
(* (src/src/calculator.py), the transaction ledger of the encrypted store  *)
(* (src/src/database.py), the "current number" endpoint and the           *)
(* authentication endpoints (src/api/main.py), the rate limiter and the    *)
(* password reset tokens (src/api/auth.py) and the timezone helpers        *)
(* (src/api/utils/dates.py).                                               *)
(*                                                                         *)
(* Numbers.  Python floats are modelled as exact rationals [n, d] in       *)
(* lowest terms with d > 0; float('inf') is the distinguished value INF.   *)
(* Dates are proleptic Gregorian ordinals (date.toordinal()); a datetime   *)
(* is a record [day, hour].                                                *)
(***************************************************************************)
EXTENDS Integers, Sequences, FiniteSets, TLC

VARIABLES
    today,            \* the system clock's date, datetime.now().date(), as an ordinal
    expenses,         \* BudgetCalculator.expenses: a sequence of Expense
    transactions,     \* BudgetCalculator.transactions: a sequence of Transaction
    db_expenses,      \* rows of the store's expenses table
    db_transactions,  \* rows of the store's transactions table
    next_id,          \* the AUTOINCREMENT counters of the store's tables
    settings,         \* the store's settings table: user -> key -> value
    call,             \* the last operation: its name, arguments and outcome
    clock_hour,       \* the system clock's hour of the day, datetime.now().hour
    utc_now,          \* datetime.utcnow() of the API process, in seconds
    rate_limit_cache, \* auth._rate_limit_cache: client IP -> timestamps
    reset_tokens,     \* auth._reset_tokens: token -> [username, expires]
    db_users,         \* rows of the store's users table, in order of their ids
    admitted,         \* history: the requests the rate limiter let through
    issued,           \* history: every reset token issued, and what became of it
    configured,       \* history: user -> the last two bodies configure_budget accepted
    in_flight         \* the requests waiting and the handlers started and not yet answered

\* The state of api/auth.py and of the users table, with its history.
auth_vars == <<utc_now, rate_limit_cache, reset_tokens, db_users, admitted, issued>>

\* The request handlers of the API in progress, with the history of what
\* was configured.
api_vars == <<configured, in_flight>>

vars == <<today, expenses, transactions, db_expenses, db_transactions,
          next_id, settings, call, clock_hour, auth_vars, api_vars>>

-----------------------------------------------------------------------------
(* Bounds of the model *)

MaxExpenses == 2      \* expenses held by one calculator
MaxTransactions == 2  \* transactions held by one calculator
MaxRows == 2          \* rows ever inserted into one table of the store
MaxTicks == 1         \* midnights the clock passes
MaxAdmitted == 7      \* requests the rate limiter lets through
MaxTokens == 2        \* reset tokens issued
StartDay == 739923    \* the clock's date in the initial state (2026-11-03)

(* Program constants *)

MAX_STRING_LENGTH == 200
MAX_AMOUNT == 10000000
MAX_DAYS_UNTIL_PAYCHECK == 365
DATE_MAX_ORDINAL == 3652059   \* datetime.date.max.toordinal(): 9999-12-31

\* Python's None and a present optional value: the empty and the one-element tuple.
None == <<>>
Some(v) == <<v>>
ValueOf(o) == o[1]
\* A validation that raises nothing.
NoError == ""

-----------------------------------------------------------------------------
(* Rational arithmetic standing for Python's float arithmetic *)

RECURSIVE GCD(_, _)
GCD(a, b) == IF b = 0 THEN a ELSE GCD(b, a % b)

Abs(i) == IF i < 0 THEN -i ELSE i

Norm(n, d) ==
    LET g == GCD(Abs(n), Abs(d))
        s == IF d < 0 THEN -1 ELSE 1
    IN  [n |-> s * (n \div g), d |-> s * (d \div g)]

R(i) == [n |-> i, d |-> 1]
Zero == R(0)
INF == [n |-> 1, d |-> 0]

RAdd(a, b) == Norm(a.n * b.d + b.n * a.d, a.d * b.d)
RSub(a, b) == Norm(a.n * b.d - b.n * a.d, a.d * b.d)
RMul(a, b) ==
    LET g1 == GCD(Abs(a.n), b.d)
        g2 == GCD(Abs(b.n), a.d)
    IN  Norm((a.n \div g1) * (b.n \div g2), (a.d \div g2) * (b.d \div g1))
RDiv(a, b) == RMul(a, Norm(b.d, b.n))
RNeg(a) == [n |-> -a.n, d |-> a.d]
RLt(a, b) == a.n * b.d < b.n * a.d
RLe(a, b) == a.n * b.d <= b.n * a.d
RAbs(a) == [n |-> Abs(a.n), d |-> a.d]
Floor(a) == a.n \div a.d

\* Python's max(0, x): 0 unless x > 0.
PyMax0(x) == IF RLt(Zero, x) THEN x ELSE Zero
\* Python's min(0, x): 0 unless x < 0.
PyMin0(x) == IF RLt(x, Zero) THEN x ELSE Zero

-----------------------------------------------------------------------------
(* Outcomes of an operation: a returned value or a raised exception *)

Ok(v) == [status |-> "ok", value |-> v]
Raise(type, msg) == [status |-> type, msg |-> msg]

-----------------------------------------------------------------------------
(* src/src/calculator.py: Expense, Transaction *)

\* A faulty variant: a negative amount is accepted.
ExpensePostInit_AcceptsNegative(amount) ==
    IF amount > MAX_AMOUNT THEN "Expense amount exceeds maximum"
    ELSE NoError

\* Expense.__post_init__: the message of the ValueError it raises, or NoError.
ExpensePostInit(amount) ==
    IF amount < 0 THEN "Expense amount cannot be negative"
    ELSE IF amount > MAX_AMOUNT THEN "Expense amount exceeds maximum"
    ELSE NoError

\* Transaction.__post_init__: the message of the ValueError it raises, or NoError.
TransactionPostInit(amount) ==
    IF amount < 0 THEN "Transaction amount cannot be negative"
    ELSE IF amount > MAX_AMOUNT THEN "Transaction amount exceeds maximum"
    ELSE NoError

RECURSIVE SumAmounts(_)
SumAmounts(s) == IF s = <<>> THEN 0 ELSE Head(s).amount + SumAmounts(Tail(s))

\* A faulty variant: only the fixed expenses are summed.
get_total_expenses_FixedOnly(exps) ==
    LET fixed(e) == e.is_fixed IN SumAmounts(SelectSeq(exps, fixed))

\* BudgetCalculator.get_total_expenses
get_total_expenses(exps) == SumAmounts(exps)

-----------------------------------------------------------------------------
(* src/src/calculator.py: BudgetCalculator.calculate_paycheck_mode *)

\* A faulty variant: the upper bound on the days is off by one.
PaycheckValidation_OffByOne(monthly_income, days_until_paycheck) ==
    IF monthly_income < 0 THEN "Monthly income cannot be negative"
    ELSE IF days_until_paycheck <= 0 THEN "Days until paycheck must be positive"
    ELSE IF days_until_paycheck >= MAX_DAYS_UNTIL_PAYCHECK
         THEN "Days until paycheck cannot exceed 365"
    ELSE NoError

\* The validation of lines 110-115: the message of the ValueError, or NoError.
PaycheckValidation(monthly_income, days_until_paycheck) ==
    IF monthly_income < 0 THEN "Monthly income cannot be negative"
    ELSE IF days_until_paycheck <= 0 THEN "Days until paycheck must be positive"
    ELSE IF days_until_paycheck > MAX_DAYS_UNTIL_PAYCHECK
         THEN "Days until paycheck cannot exceed 365"
    ELSE NoError

\* A faulty variant: the deficit is not floored to zero.
PaycheckDailyLimit_Unfloored(remaining_money, days_until_paycheck) ==
    RDiv(remaining_money, R(days_until_paycheck))

\* daily_limit = max(0, remaining_money / days_until_paycheck)
PaycheckDailyLimit(remaining_money, days_until_paycheck) ==
    PyMax0(RDiv(remaining_money, R(days_until_paycheck)))

\* A faulty variant: breaking even counts as a deficit.
IsDeficit_Inclusive(remaining_money) == RLe(remaining_money, Zero)

\* is_deficit = remaining_money < 0
IsDeficit(remaining_money) == RLt(remaining_money, Zero)

\* "deficit_amount": abs(min(0, remaining_money))
DeficitAmount(remaining_money) == RAbs(PyMin0(remaining_money))

calculate_paycheck_mode(exps, monthly_income, days_until_paycheck) ==
    LET err == PaycheckValidation(monthly_income, days_until_paycheck)
        total_expenses == get_total_expenses(exps)
        remaining_money == R(monthly_income - total_expenses)
    IN  IF err # NoError THEN Raise("ValueError", err)
        ELSE Ok([total_income |-> R(monthly_income),
                 total_expenses |-> R(total_expenses),
                 remaining_money |-> remaining_money,
                 days_remaining |-> days_until_paycheck,
                 daily_limit |-> PaycheckDailyLimit(remaining_money, days_until_paycheck),
                 is_deficit |-> IsDeficit(remaining_money),
                 deficit_amount |-> DeficitAmount(remaining_money),
                 mode |-> "paycheck"])

-----------------------------------------------------------------------------
(* src/src/calculator.py: BudgetCalculator.calculate_fixed_pool_mode *)

\* datetime.date(): the date of a datetime, its time of day dropped.
DateOf(dt) == dt.day

\* date + timedelta(days=d) for a float d: the timedelta's whole days are
\* added (its rounding of d to a microsecond is left out); a date outside
\* [date.min, date.max] raises OverflowError, and so does a timedelta of more
\* than 999999999 days, which is always beyond date.max as well.
DateAddOverflows(day, d) ==
    LET r == day + Floor(d) IN r < 1 \/ r > DATE_MAX_ORDINAL
DateAdd(day, d) == day + Floor(d)

\* A faulty variant: a pool of exactly zero falls through to the options.
IsOutOfMoney_Strict(total_money) == total_money < 0

\* Line 156: the zero money case, tested before every option.
IsOutOfMoney(total_money) == total_money <= 0

\* Lines 157-165: the zero money result.
OutOfMoneyResult(total_money, total_expenses) ==
    Ok([total_money |-> R(total_money),
        total_expenses |-> R(total_expenses),
        months_remaining |-> Zero,
        days_remaining |-> Zero,
        daily_limit |-> Zero,
        out_of_money |-> TRUE,
        mode |-> "fixed_pool"])

\* Lines 176-183: the daily limit that makes the pool last until the target.
TargetDailyLimit(total_money, total_expenses, days_until_target) ==
    LET daily_expense_rate == RDiv(R(total_expenses), R(30))
        total_expenses_for_period == RMul(daily_expense_rate, R(days_until_target))
        remaining_money == RSub(R(total_money), total_expenses_for_period)
    IN  PyMax0(RDiv(remaining_money, R(days_until_target)))

\* Lines 168-207: Option B, last until a target date.
TargetDateBranch(now_day, total_money, total_expenses, target_end_date) ==
    LET target_date == DateOf(ValueOf(target_end_date))
        days_until_target == target_date - now_day
        days_if_spending_expenses ==
            IF total_expenses > 0
            THEN RDiv(R(total_money), RDiv(R(total_expenses), R(30)))
            ELSE INF
    IN  IF days_until_target <= 0
        THEN Raise("ValueError", "Target end date must be in the future")
        ELSE IF total_expenses > 0 /\ DateAddOverflows(now_day, days_if_spending_expenses)
        THEN Raise("OverflowError", "date value out of range")
        ELSE Ok([total_money |-> R(total_money),
                 total_expenses |-> R(total_expenses),
                 daily_limit |-> TargetDailyLimit(total_money, total_expenses,
                                                  days_until_target),
                 target_end_date |-> ValueOf(target_end_date),
                 days_remaining |-> R(days_until_target),
                 months_remaining |-> RDiv(R(days_until_target), R(30)),
                 alt_daily_expenses |-> IF total_expenses > 0
                                        THEN RDiv(R(total_expenses), R(30)) ELSE Zero,
                 alt_end_date |-> IF total_expenses > 0
                                  THEN Some(DateAdd(now_day, days_if_spending_expenses))
                                  ELSE None,
                 alt_days_remaining |-> days_if_spending_expenses,
                 mode |-> "fixed_pool",
                 calculation_mode |-> "target_date"])

\* Lines 210-238: Option C, spend a given amount per day.
DailyLimitBranch(now_day, total_money, total_expenses, daily_spending_limit) ==
    LET limit == ValueOf(daily_spending_limit)
        days_it_will_last == RDiv(R(total_money), R(limit))
        days_based_on_expenses ==
            IF total_expenses > 0
            THEN RDiv(R(total_money), RDiv(R(total_expenses), R(30)))
            ELSE INF
        alt_daily_limit ==
            IF total_expenses > 0 /\ RLt(Zero, days_based_on_expenses)
            THEN RDiv(R(total_money), days_based_on_expenses)
            ELSE Zero
    IN  IF limit <= 0
        THEN Raise("ValueError", "Daily spending limit must be positive")
        ELSE IF DateAddOverflows(now_day, days_it_will_last)
        THEN Raise("OverflowError", "date value out of range")
        ELSE Ok([total_money |-> R(total_money),
                 total_expenses |-> R(total_expenses),
                 daily_limit |-> R(limit),
                 end_date |-> Some(DateAdd(now_day, days_it_will_last)),
                 days_remaining |-> days_it_will_last,
                 months_remaining |-> RDiv(days_it_will_last, R(30)),
                 alt_daily_limit |-> alt_daily_limit,
                 alt_days_remaining |-> days_based_on_expenses,
                 mode |-> "fixed_pool",
                 calculation_mode |-> "daily_limit"])

\* A faulty variant: the infinite runway is coerced to a finite number.
NoExpensesRunway_Finite ==
    [months_remaining |-> Zero, days_remaining |-> Zero,
     daily_limit |-> Zero, end_date |-> None]

\* Lines 248-251: no expenses, the runway is infinite.
NoExpensesRunway ==
    [months_remaining |-> INF, days_remaining |-> INF,
     daily_limit |-> Zero, end_date |-> None]

\* Lines 241-262: the fallback, the runway at the monthly expense rate.
ExpensesBasedBranch(now_day, total_money, total_expenses) ==
    LET months_remaining == RDiv(R(total_money), R(total_expenses))
        days_remaining == RMul(months_remaining, R(30))
        daily_limit == IF RLt(Zero, days_remaining)
                       THEN RDiv(R(total_money), days_remaining) ELSE Zero
        f == IF total_expenses > 0
             THEN [months_remaining |-> months_remaining,
                   days_remaining |-> days_remaining,
                   daily_limit |-> daily_limit,
                   end_date |-> Some(DateAdd(now_day, days_remaining))]
             ELSE NoExpensesRunway
    IN  IF total_expenses > 0 /\ DateAddOverflows(now_day, days_remaining)
        THEN Raise("OverflowError", "date value out of range")
        ELSE Ok([total_money |-> R(total_money),
                 total_expenses |-> R(total_expenses),
                 months_remaining |-> f.months_remaining,
                 days_remaining |-> f.days_remaining,
                 daily_limit |-> f.daily_limit,
                 end_date |-> f.end_date,
                 mode |-> "fixed_pool",
                 calculation_mode |-> "expenses_based"])

\* A faulty variant: the daily cap is tested before the target date.
FixedPoolBranch_LimitFirst(target_end_date, daily_spending_limit) ==
    IF daily_spending_limit # None THEN "daily_limit"
    ELSE IF target_end_date # None THEN "target_date"
    ELSE "expenses_based"

\* Lines 167, 210, 241: which branch a call with money takes.
FixedPoolBranch(target_end_date, daily_spending_limit) ==
    IF target_end_date # None THEN "target_date"
    ELSE IF daily_spending_limit # None THEN "daily_limit"
    ELSE "expenses_based"

calculate_fixed_pool_mode(exps, now_day, total_money, target_end_date, daily_spending_limit) ==
    LET total_expenses == get_total_expenses(exps)
        branch == FixedPoolBranch(target_end_date, daily_spending_limit)
    IN  IF total_money < 0
        THEN Raise("ValueError", "Total money cannot be negative")
        ELSE IF IsOutOfMoney(total_money)
        THEN OutOfMoneyResult(total_money, total_expenses)
        ELSE IF branch = "target_date"
        THEN TargetDateBranch(now_day, total_money, total_expenses, target_end_date)
        ELSE IF branch = "daily_limit"
        THEN DailyLimitBranch(now_day, total_money, total_expenses,
                              daily_spending_limit)
        ELSE ExpensesBasedBranch(now_day, total_money, total_expenses)

-----------------------------------------------------------------------------
(* IEEE 754 binary64, the arithmetic of Python's float.                    *)
(*                                                                         *)
(* The rationals above are the real-number reading of the engine's         *)
(* formulas.  Where a property depends on how each operation rounds, the   *)
(* figures are computed here as CPython computes them: every +, -, * and / *)
(* is the exact result rounded to 53 significant bits, ties to even.       *)
(* TLC's integers are too narrow for a 53-bit significand, so a natural    *)
(* number is a little-endian tuple of 15-bit limbs without leading zeros,  *)
(* and a finite float is [neg, m, e] with the value (-1)^neg * m * 2^e,    *)
(* where m is zero or exactly 53 bits long.  Overflow and subnormals lie   *)
(* outside the amounts the engine accepts and are not modelled.            *)

\* 52 stored bits and the implicit leading one.
SignificandBits == 52 + 1
\* The product of two limbs stays within TLC's 32-bit integers.
LimbBits == 30 \div 2

RECURSIVE Pow2(_)
Pow2(k) == IF k = 0 THEN 1 ELSE 2 * Pow2(k - 1)

Base == Pow2(LimbBits)

RECURSIVE Big(_)
Big(n) == IF n = 0 THEN <<>> ELSE <<n % Base>> \o Big(n \div Base)

RECURSIVE Trim(_)
Trim(a) ==
    IF a = <<>> \/ a[Len(a)] # 0 THEN a ELSE Trim(SubSeq(a, 1, Len(a) - 1))

LimbAt(a, i) == IF i >= 1 /\ i <= Len(a) THEN a[i] ELSE 0

Rest(a) == IF a = <<>> THEN <<>> ELSE Tail(a)

\* The number of bits of a: 0 for zero.
BitLen(a) ==
    IF a = <<>>
    THEN 0
    ELSE LimbBits * (Len(a) - 1)
             + (CHOOSE k \in 1..LimbBits :
                    Pow2(k - 1) <= a[Len(a)] /\ a[Len(a)] < Pow2(k))

\* a * 2^k
ShiftLeft(a, k) ==
    LET p     == Pow2(k % LimbBits)
        moved == [i \in 1..(Len(a) + 1) |->
                     ((LimbAt(a, i) * p) % Base) + ((LimbAt(a, i - 1) * p) \div Base)]
    IN  IF a = <<>> THEN <<>>
        ELSE [i \in 1..(k \div LimbBits) |-> 0] \o Trim(moved)

\* a \div 2^k
ShiftRight(a, k) ==
    LET p    == Pow2(k % LimbBits)
        kept == SubSeq(a, (k \div LimbBits) + 1, Len(a))
    IN  Trim([i \in 1..Len(kept) |->
                 (kept[i] \div p) + (LimbAt(kept, i + 1) % p) * (Base \div p)])

RECURSIVE BigAddCarry(_, _, _)
BigAddCarry(a, b, carry) ==
    IF a = <<>> /\ b = <<>>
    THEN IF carry = 0 THEN <<>> ELSE <<carry>>
    ELSE LET s == LimbAt(a, 1) + LimbAt(b, 1) + carry
         IN  <<s % Base>> \o BigAddCarry(Rest(a), Rest(b), s \div Base)

BigAdd(a, b) == BigAddCarry(a, b, 0)

\* a - b for a >= b.
RECURSIVE BigSubBorrow(_, _, _)
BigSubBorrow(a, b, borrow) ==
    IF a = <<>>
    THEN <<>>
    ELSE LET s == LimbAt(a, 1) - LimbAt(b, 1) - borrow
         IN  <<s % Base>> \o BigSubBorrow(Rest(a), Rest(b), IF s < 0 THEN 1 ELSE 0)

BigSub(a, b) == Trim(BigSubBorrow(a, b, 0))

\* -1, 0 or 1 as a < b, a = b or a > b.
RECURSIVE BigCmpFrom(_, _, _)
BigCmpFrom(a, b, i) ==
    IF i = 0 THEN 0
    ELSE IF a[i] < b[i] THEN -1
    ELSE IF a[i] > b[i] THEN 1
    ELSE BigCmpFrom(a, b, i - 1)

BigCmp(a, b) ==
    IF Len(a) < Len(b) THEN -1
    ELSE IF Len(a) > Len(b) THEN 1
    ELSE BigCmpFrom(a, b, Len(a))

\* a * k + carry for one limb k.
RECURSIVE MulLimb(_, _, _)
MulLimb(a, k, carry) ==
    IF a = <<>>
    THEN Big(carry)
    ELSE LET p == a[1] * k + carry
         IN  <<p % Base>> \o MulLimb(Tail(a), k, p \div Base)

RECURSIVE BigMul(_, _)
BigMul(a, b) ==
    IF a = <<>> \/ b = <<>>
    THEN <<>>
    ELSE BigAdd(Trim(MulLimb(a, b[1], 0)), ShiftLeft(BigMul(a, Tail(b)), LimbBits))

F64Zero == [neg |-> FALSE, m |-> <<>>, e |-> 0]

\* The float nearest to n * 2^e, ties to even.
F64Round(neg, n, e) ==
    LET k == BitLen(n) - SignificandBits
    IN  IF n = <<>> THEN F64Zero
        ELSE IF k <= 0
        THEN [neg |-> neg, m |-> ShiftLeft(n, -k), e |-> e + k]
        ELSE LET top  == ShiftRight(n, k)
                 low  == BigSub(n, ShiftLeft(top, k))
                 half == BigCmp(low, ShiftLeft(<<1>>, k - 1))
                 up   == half > 0 \/ (half = 0 /\ top[1] % 2 = 1)
                 m    == IF up THEN BigAdd(top, <<1>>) ELSE top
             IN  IF BitLen(m) > SignificandBits
                 THEN [neg |-> neg, m |-> ShiftRight(m, 1), e |-> e + k + 1]
                 ELSE [neg |-> neg, m |-> m, e |-> e + k]

\* float(n) for an integer n.
F64(n) == F64Round(n < 0, Big(IF n < 0 THEN -n ELSE n), 0)

\* Both significands over the smaller of the two exponents.
F64Align(x, y) ==
    LET e == IF x.m = <<>> THEN y.e
             ELSE IF y.m = <<>> THEN x.e
             ELSE IF x.e < y.e THEN x.e ELSE y.e
    IN  [a |-> ShiftLeft(x.m, x.e - e), b |-> ShiftLeft(y.m, y.e - e), e |-> e]

F64Neg(x) == IF x.m = <<>> THEN x ELSE [x EXCEPT !.neg = ~x.neg]

\* x + y
F64Add(x, y) ==
    LET al == F64Align(x, y)
    IN  IF x.neg = y.neg
        THEN F64Round(x.neg, BigAdd(al.a, al.b), al.e)
        ELSE IF BigCmp(al.a, al.b) >= 0
        THEN F64Round(x.neg, BigSub(al.a, al.b), al.e)
        ELSE F64Round(y.neg, BigSub(al.b, al.a), al.e)

\* x - y
F64Sub(x, y) == F64Add(x, F64Neg(y))

\* x * y
F64Mul(x, y) == F64Round(x.neg # y.neg, BigMul(x.m, y.m), x.e + y.e)

\* Restoring division: quotient bits of r / b are produced, most significant
\* first, until the quotient q has two bits more than a significand.
RECURSIVE QuotientBits(_, _, _)
QuotientBits(r, b, q) ==
    IF BitLen(q) >= SignificandBits + 2
    THEN [q |-> q, r |-> r]
    ELSE IF BigCmp(r, b) >= 0
    THEN QuotientBits(ShiftLeft(BigSub(r, b), 1), b, BigAdd(ShiftLeft(q, 1), <<1>>))
    ELSE QuotientBits(ShiftLeft(r, 1), b, ShiftLeft(q, 1))

\* x / y for y # 0.  The two significands have the same length, so the
\* first quotient bit is that of 2^0 when x.m >= y.m and that of 2^-1
\* otherwise; a last bit below the quotient says whether a remainder is left.
F64Div(x, y) ==
    IF x.m = <<>> THEN F64Zero
    ELSE LET d     == QuotientBits(x.m, y.m, <<>>)
             first == IF BigCmp(x.m, y.m) >= 0 THEN 0 ELSE -1
             s     == IF d.r = <<>> THEN <<>> ELSE <<1>>
         IN  F64Round(x.neg # y.neg, BigAdd(ShiftLeft(d.q, 1), s),
                      x.e - y.e + first - (SignificandBits + 1) - 1)

\* x < y and x <= y
F64Lt(x, y) ==
    LET al == F64Align(x, y)
        c  == BigCmp(al.a, al.b)
    IN  IF x.neg /\ ~y.neg THEN TRUE
        ELSE IF ~x.neg /\ y.neg THEN FALSE
        ELSE IF x.neg THEN c > 0 ELSE c < 0

F64Le(x, y) == ~F64Lt(y, x)

\* max(0, x): Python keeps the first argument unless a later one is greater.
F64Max0(x) == IF F64Lt(F64Zero, x) THEN x ELSE F64Zero

\* An exact product and an exact sum of floats: the significand is not rounded.
ExactMul(x, y) == [neg |-> x.neg # y.neg, m |-> BigMul(x.m, y.m), e |-> x.e + y.e]

ExactAdd(x, y) ==
    LET al == F64Align(x, y)
    IN  IF x.neg = y.neg
        THEN [neg |-> x.neg, m |-> BigAdd(al.a, al.b), e |-> al.e]
        ELSE IF BigCmp(al.a, al.b) >= 0
        THEN [neg |-> x.neg /\ al.a # al.b, m |-> BigSub(al.a, al.b), e |-> al.e]
        ELSE [neg |-> y.neg, m |-> BigSub(al.b, al.a), e |-> al.e]

\* calculator.py line 70: sum(...) adds the amounts to 0 from left to right.
RECURSIVE SumAmounts64(_)
SumAmounts64(exps) ==
    IF exps = <<>>
    THEN F64Zero
    ELSE F64Add(SumAmounts64(SubSeq(exps, 1, Len(exps) - 1)),
                F64(exps[Len(exps)].amount))

\* calculator.py lines 117-120, for arguments the validation accepts.
PaycheckFigures64(exps, monthly_income, days_until_paycheck) ==
    LET total_expenses == SumAmounts64(exps)
        remaining_money == F64Sub(F64(monthly_income), total_expenses)
    IN  [total_income |-> F64(monthly_income),
         total_expenses |-> total_expenses,
         remaining_money |-> remaining_money,
         days_remaining |-> days_until_paycheck,
         daily_limit |-> F64Max0(F64Div(remaining_money, F64(days_until_paycheck))),
         mode |-> "paycheck"]

\* calculator.py lines 175-184, for a target date in the future.
TargetDateFigures64(exps, total_money, days_until_target) ==
    LET total_expenses == SumAmounts64(exps)
        daily_expense_rate == F64Div(total_expenses, F64(30))
        total_expenses_for_period == F64Mul(daily_expense_rate, F64(days_until_target))
        remaining_money == F64Sub(F64(total_money), total_expenses_for_period)
    IN  [total_money |-> F64(total_money),
         total_expenses |-> total_expenses,
         daily_limit |-> F64Max0(F64Div(remaining_money, F64(days_until_target))),
         days_remaining |-> days_until_target,
         mode |-> "fixed_pool",
         calculation_mode |-> "target_date"]

-----------------------------------------------------------------------------
(* src/src/calculator.py: BudgetCalculator.get_number *)

\* kwargs.get(key, default) for keyword arguments given as optionals.
KwargOr(kwargs, key, default) ==
    IF kwargs[key] = None THEN default ELSE ValueOf(kwargs[key])

\* The daily limit of a calculation, or the exception it raised.
DailyLimitOf(result) ==
    IF result.status = "ok" THEN Ok(result.value.daily_limit) ELSE result

get_number(exps, now_day, mode, kwargs) ==
    IF mode = "paycheck"
    THEN DailyLimitOf(calculate_paycheck_mode(exps,
             KwargOr(kwargs, "monthly_income", 0),
             KwargOr(kwargs, "days_until_paycheck", 1)))
    ELSE IF mode = "fixed_pool"
    THEN DailyLimitOf(calculate_fixed_pool_mode(exps, now_day,
             KwargOr(kwargs, "total_money", 0), None, None))
    ELSE Raise("ValueError", "Invalid mode. Must be 'paycheck' or 'fixed_pool'")

-----------------------------------------------------------------------------
(* src/src/calculator.py: the calculator's transaction ledger *)

\* A Transaction of the calculator counts as spending on `day`.
CountsOn(t, day) == DateOf(t.date) = day /\ t.category # Some("income")

\* A Transaction of the calculator counts as spending within [start, end].
CountsWithin(t, start, end) ==
    /\ DateOf(start) <= DateOf(t.date)
    /\ DateOf(t.date) <= DateOf(end)
    /\ t.category # Some("income")

\* BudgetCalculator.get_today_spending
get_today_spending(txns, now_day) ==
    LET P(t) == CountsOn(t, now_day) IN SumAmounts(SelectSeq(txns, P))

\* BudgetCalculator.get_period_spending
get_period_spending(txns, start_date, end_date) ==
    LET P(t) == CountsWithin(t, start_date, end_date)
    IN  SumAmounts(SelectSeq(txns, P))

-----------------------------------------------------------------------------
(* Strings: a str is the tuple of its characters *)

RECURSIVE LStrip(_)
LStrip(s) == IF s # <<>> /\ Head(s) = " " THEN LStrip(Tail(s)) ELSE s
RECURSIVE RStrip(_)
RStrip(s) == IF s # <<>> /\ s[Len(s)] = " " THEN RStrip(SubSeq(s, 1, Len(s) - 1)) ELSE s
\* str.strip()
Strip(s) == RStrip(LStrip(s))

\* datetime.isoformat() and datetime.fromisoformat(): the text holds the date
\* part and the time part.
IsoFormat(dt) == <<dt.day, dt.hour>>
FromIsoFormat(text) == [day |-> text[1], hour |-> text[2]]
\* SQLite's DATE(text): the date part of an ISO text without UTC offset.
SqlDate(text) == text[1]

\* datetime.now(): the system clock's date and hour.
Now(now_day, hour) == [day |-> now_day, hour |-> hour]

-----------------------------------------------------------------------------
(* src/api/utils/dates.py: days in a user's timezone *)
(* An instant is a number of hours, 24 * date ordinal + hour, in UTC; a wall *)
(* time is the same number read on the clock of a zone.                     *)

\* The zones of the model: UTC and one with daylight saving time.
VALID_TIMEZONES == {"UTC", "America/Denver"}
DEFAULT_TIMEZONE == "America/Denver"

\* The zone of the server's own clock, the one datetime.now() reads.
ServerZone == "UTC"

\* America/Denver starts daylight saving time on 2027-03-14, at 02:00 MST.
DstDay == StartDay + 131

\* ZoneInfo.utcoffset of an aware datetime given by its UTC instant.
UtcOffset(zone, instant) ==
    IF zone = "UTC" THEN 0
    ELSE IF instant < DstDay * 24 + 9 THEN -7 ELSE -6

\* ZoneInfo.utcoffset of a wall time (fold = 0): the hour skipped by the
\* change, 02:00 to 03:00, still has the offset from before it.
WallOffset(zone, wall) ==
    IF zone = "UTC" THEN 0
    ELSE IF wall < DstDay * 24 + 3 THEN -7 ELSE -6

\* datetime.astimezone: between a zone's wall time and the UTC instant.
ToUtc(zone, wall) == wall - WallOffset(zone, wall)
ToZone(zone, instant) == instant + UtcOffset(zone, instant)

\* The date and the hour of a wall time.
WallDate(wall) == wall \div 24
WallHour(wall) == wall % 24

validate_timezone(tz_str) ==
    IF tz_str # None /\ ValueOf(tz_str) \in VALID_TIMEZONES
    THEN ValueOf(tz_str) ELSE DEFAULT_TIMEZONE

\* get_user_today: datetime.now(tz).date()
get_user_today(user_timezone, instant) ==
    WallDate(ToZone(validate_timezone(user_timezone), instant))

\* get_user_day_boundaries_utc: the UTC instants of the first and of the
\* last hour of the user's day (time.min and time.max on the user's date).
get_user_day_boundaries_utc(user_timezone, instant) ==
    LET tz == validate_timezone(user_timezone)
        user_today == WallDate(ToZone(tz, instant))
        start_local == user_today * 24
        end_local == user_today * 24 + 23
    IN  <<ToUtc(tz, start_local), ToUtc(tz, end_local)>>

\* The UTC instant at which the server's clock shows a date and an hour.
ServerInstant(day, hour) == ToUtc(ServerZone, day * 24 + hour)

-----------------------------------------------------------------------------
(* src/src/database.py: EncryptedDatabase, the transactions table *)

\* The validation of add_transaction: the message of the ValueError, or NoError.
DbTransactionValidation(amount, description) ==
    IF amount <= 0 THEN "Transaction amount must be positive"
    ELSE IF amount > 10000000 THEN "Amount exceeds maximum ($10,000,000)"
    ELSE IF description = <<>> \/ Strip(description) = <<>>
         THEN "Transaction description is required"
    ELSE IF Len(description) > 200 THEN "Description too long (max 200 characters)"
    ELSE NoError

\* The row add_transaction inserts.
NewTransactionRow(id, user_id, now, amount, description, date, category) ==
    [id |-> id, user_id |-> user_id,
     date |-> IsoFormat(IF date = None THEN now ELSE ValueOf(date)),
     amount |-> amount, description |-> Strip(description), category |-> category]

\* ORDER BY date DESC compares the ISO texts of the dates.
DateTextLe(a, b) == a[1] < b[1] \/ (a[1] = b[1] /\ a[2] <= b[2])

\* EncryptedDatabase.get_transactions(user_id, limit=1): the rows that may
\* come first under ORDER BY date DESC LIMIT 1, those of the user with the
\* greatest date; SQLite leaves the order of rows with equal dates open.
FirstByDate(rows, user_id) ==
    LET mine == {r \in rows : r.user_id = user_id}
    IN  {r \in mine : \A other \in mine : DateTextLe(other.date, r.date)}

RECURSIVE SumRows(_)
SumRows(rows) ==
    IF rows = {} THEN 0
    ELSE LET r == CHOOSE x \in rows : TRUE IN r.amount + SumRows(rows \ {r})

\* The rows the query of get_total_spending_today selects:
\* WHERE user_id = ? AND DATE(date) = DATE(?)
SpendingTodayRows(rows, user_id, now_day) ==
    {r \in rows : r.user_id = user_id /\ SqlDate(r.date) = now_day}

\* EncryptedDatabase.get_total_spending_today: SUM(amount), 0.0 for no rows.
get_total_spending_today(rows, user_id, now_day) ==
    SumRows(SpendingTodayRows(rows, user_id, now_day))

-----------------------------------------------------------------------------
(* src/src/database.py: EncryptedDatabase, the expenses table *)

\* The validation of add_expense: the message of the ValueError, or NoError.
DbExpenseValidation(name, amount) ==
    IF amount < 0 THEN "Expense amount cannot be negative"
    ELSE IF amount > 10000000 THEN "Amount exceeds maximum ($10,000,000)"
    ELSE IF name = <<>> \/ Strip(name) = <<>> THEN "Expense name is required"
    ELSE IF Len(name) > 200 THEN "Expense name too long (max 200 characters)"
    ELSE NoError

\* EncryptedDatabase.get_expenses: the user's rows, newest first.
RECURSIVE RowsNewestFirst(_)
RowsNewestFirst(rows) ==
    IF rows = {} THEN <<>>
    ELSE LET r == CHOOSE x \in rows : \A y \in rows : y.id <= x.id
         IN  <<r>> \o RowsNewestFirst(rows \ {r})

get_expenses(rows, user_id) == RowsNewestFirst({r \in rows : r.user_id = user_id})

\* EncryptedDatabase.get_expense_by_id: the row WHERE id = ? AND user_id = ?,
\* or None.
get_expense_by_id(rows, expense_id, user_id) ==
    LET found == {r \in rows : r.id = expense_id /\ r.user_id = user_id}
    IN  IF found = {} THEN None ELSE Some(CHOOSE r \in found : TRUE)

\* The validation of update_expense: the message of the ValueError, or
\* NoError.  A name is checked before an amount.
UpdateExpenseValidation(name, amount) ==
    IF name # None /\ Len(ValueOf(name)) > 200
    THEN "Expense name too long (max 200 characters)"
    ELSE IF amount # None /\ ValueOf(amount) < 0 THEN "Amount cannot be negative"
    ELSE IF amount # None /\ ValueOf(amount) > 10000000
    THEN "Amount exceeds maximum ($10,000,000)"
    ELSE NoError

\* The row after UPDATE expenses SET ... with the fields that were given.
UpdatedRow(r, name, amount, is_fixed) ==
    [r EXCEPT !.name = IF name = None THEN @ ELSE Strip(ValueOf(name)),
              !.amount = IF amount = None THEN @ ELSE ValueOf(amount),
              !.is_fixed = IF is_fixed = None THEN @ ELSE ValueOf(is_fixed)]

\* EncryptedDatabase.update_expense: the rows afterwards, for arguments that
\* passed the validation.  UPDATE ... WHERE id = ? AND user_id = ?
update_expense(rows, expense_id, user_id, name, amount, is_fixed) ==
    {IF r.id = expense_id /\ r.user_id = user_id
     THEN UpdatedRow(r, name, amount, is_fixed) ELSE r : r \in rows}

\* A faulty variant: the expense is deleted whoever owns it.
delete_expense_AnyUser(rows, expense_id, user_id) ==
    {r \in rows : r.id # expense_id}

\* EncryptedDatabase.delete_expense: the rows afterwards.
\* DELETE FROM expenses WHERE id = ? AND user_id = ?
delete_expense(rows, expense_id, user_id) ==
    {r \in rows : ~(r.id = expense_id /\ r.user_id = user_id)}

-----------------------------------------------------------------------------
(* src/src/database.py: EncryptedDatabase, the settings table *)

\* EncryptedDatabase.set_setting: the table afterwards.  The row of
\* (user_id, key) is inserted or, ON CONFLICT(user_id, key), updated; the
\* value goes through json.dumps, so None is stored as null.
set_setting(table, key, value, user_id) == [table EXCEPT ![user_id][key] = value]

\* EncryptedDatabase.get_setting: the value WHERE key = ? AND user_id = ?,
\* or the default None.
get_setting(table, key, user_id) == table[user_id][key]

-----------------------------------------------------------------------------
(* src/api/main.py: HTTP answers *)

Http(status_code, body) == [status |-> status_code, body |-> body]

-----------------------------------------------------------------------------
(* src/api/auth.py: rate limiting and password reset tokens *)
(* A timestamp is a number of seconds on the clock of datetime.utcnow().  *)

\* The rate limited endpoints.
Endpoints == {"register", "login", "forgot_password"}

\* Lines 197-200: the timestamps after the cutoff.
Prune(stamps, cutoff) ==
    LET recent(timestamp) == timestamp > cutoff IN SelectSeq(stamps, recent)

\* check_rate_limit: the cache it leaves and whether it raised the
\* HTTPException with status 429. The one list of a client IP serves every
\* endpoint.
check_rate_limit(cache, client_ip, now, max_requests, window_seconds) ==
    LET kept == Prune(cache[client_ip], now - window_seconds)
    IN  IF Len(kept) >= max_requests
        THEN [cache |-> [cache EXCEPT ![client_ip] = kept], limited |-> TRUE]
        ELSE [cache |-> [cache EXCEPT ![client_ip] = Append(kept, now)],
              limited |-> FALSE]

\* The limits the handlers pass (main.py 608, 671, 762).
RateLimitOf(endpoint) ==
    IF endpoint = "forgot_password"
    THEN [max_requests |-> 5, window_seconds |-> 300]
    ELSE [max_requests |-> 5, window_seconds |-> 60]

\* secrets.token_urlsafe(32): a token no earlier call returned; the n-th
\* token issued is the number n.
FreshToken(issued_so_far) == Len(issued_so_far) + 1

\* A faulty variant: the token is valid for two hours.
ResetTokenExpires_TwoHours(now) == now + 7200

\* Line 121: expires = datetime.utcnow() + timedelta(hours=1)
ResetTokenExpires(now) == now + 3600

\* generate_reset_token: the stored tokens afterwards.
generate_reset_token(tokens, token, username, now) ==
    [t \in DOMAIN tokens \cup {token} |->
        IF t = token THEN [username |-> username, expires |-> ResetTokenExpires(now)]
        ELSE tokens[t]]

\* dict without a key: del _reset_tokens[token]
Without(tokens, token) == [t \in DOMAIN tokens \ {token} |-> tokens[t]]

\* verify_reset_token: the username or None, and the stored tokens afterwards.
verify_reset_token(tokens, token, now) ==
    IF token \notin DOMAIN tokens
    THEN [ret |-> None, tokens |-> tokens]
    ELSE IF now > tokens[token].expires
    THEN [ret |-> None, tokens |-> Without(tokens, token)]
    ELSE [ret |-> Some(tokens[token].username), tokens |-> tokens]

\* invalidate_reset_token: the stored tokens afterwards.
invalidate_reset_token(tokens, token) ==
    IF token \in DOMAIN tokens THEN Without(tokens, token) ELSE tokens

\* hash_password and verify_password.
hash_password(password) == <<"bcrypt", password>>
verify_password(password, password_hash) == password_hash = hash_password(password)

\* EncryptedDatabase.get_user_by_username: the row, or None.
get_user_by_username(users, username) ==
    LET found == {i \in DOMAIN users : users[i].username = username}
    IN  IF found = {} THEN None ELSE Some(users[CHOOSE i \in found : TRUE])

-----------------------------------------------------------------------------
(* src/api/main.py: GET /api/number *)

\* dict.get(key): the value, or None when the key is absent.
Get(v, key) == IF key \in DOMAIN v THEN Some(v[key]) ELSE None

\* The calculation of lines 171-193 for the stored configuration.
NumberResult(cfg, exps, now_day) ==
    IF cfg["budget_mode"] = Some("paycheck")
    THEN IF cfg["monthly_income"] = None \/ cfg["days_until_paycheck"] = None
         THEN Raise("TypeError", "'<' not supported for NoneType")
         ELSE calculate_paycheck_mode(exps, ValueOf(cfg["monthly_income"]),
                                      ValueOf(cfg["days_until_paycheck"]))
    ELSE IF cfg["total_money"] = None
         THEN Raise("TypeError", "'<' not supported for NoneType")
         ELSE calculate_fixed_pool_mode(exps, now_day, ValueOf(cfg["total_money"]),
                  IF cfg["target_end_date"] = None THEN None
                  ELSE Some(FromIsoFormat(ValueOf(cfg["target_end_date"]))),
                  cfg["daily_spending_limit"])

\* Line 196: remaining_today = result["daily_limit"] - today_spending
RemainingToday(daily_limit, today_spending) == RSub(daily_limit, R(today_spending))

\* A faulty variant: spending the whole limit counts as over budget.
IsOverBudget_Inclusive(remaining_today) == RLe(remaining_today, Zero)

\* Line 209: is_over_budget = (remaining_today < 0)
IsOverBudget(remaining_today) == RLt(remaining_today, Zero)

\* Lines 196-211: the response for a calculated result.
BudgetNumberResponse(cfg, result, today_spending) ==
    LET remaining_today == RemainingToday(result.daily_limit, today_spending)
    IN  [the_number |-> result.daily_limit,
         mode |-> ValueOf(cfg["budget_mode"]),
         total_income |-> Get(result, "total_income"),
         total_money |-> Get(result, "total_money"),
         total_expenses |-> Get(result, "total_expenses"),
         remaining_money |-> Get(result, "remaining_money"),
         days_remaining |-> Get(result, "days_remaining"),
         today_spending |-> R(today_spending),
         remaining_today |-> remaining_today,
         is_over_budget |-> IsOverBudget(remaining_today)]

\* get_the_number: every exception raised inside the handler, the
\* HTTPException of line 159 included, is answered with status 500.
get_the_number(cfg, exp_rows, txn_rows, user_id, now_day) ==
    LET exps == get_expenses(exp_rows, user_id)
        result == NumberResult(cfg, exps, now_day)
    IN  IF cfg["budget_mode"] = None
        THEN Http(500, "Error calculating budget: 400: Budget mode not configured. Please configure your budget first.")
        ELSE IF result.status # "ok"
        THEN Http(500, "Error calculating budget")
        ELSE Http(200, BudgetNumberResponse(cfg, result.value,
                           get_total_spending_today(txn_rows, user_id, now_day)))

-----------------------------------------------------------------------------
(* src/api/main.py: POST /api/budget/configure *)

\* The request model BudgetModeConfig accepts the body.
BudgetModeConfigValid(config) ==
    /\ config.mode \in {"paycheck", "fixed_pool"}
    /\ config.monthly_income = None \/ ValueOf(config.monthly_income) > 0
    /\ \/ config.days_until_paycheck = None
       \/ /\ ValueOf(config.days_until_paycheck) > 0
          /\ ValueOf(config.days_until_paycheck) <= 365
    /\ config.total_money = None \/ ValueOf(config.total_money) >= 0
    /\ config.daily_spending_limit = None \/ ValueOf(config.daily_spending_limit) > 0

\* The status configure_budget answers with.
ConfigureStatus(config) ==
    IF ~BudgetModeConfigValid(config) THEN 422
    ELSE IF config.mode = "paycheck"
            /\ (config.monthly_income = None \/ config.days_until_paycheck = None)
    THEN 400
    ELSE IF config.mode = "fixed_pool" /\ config.total_money = None
    THEN 400
    ELSE 200

\* A faulty variant: a target date that is not supplied is left as stored.
ConfiguredSettings_KeepsTarget(cfg, config) ==
    IF config.mode = "paycheck"
    THEN [cfg EXCEPT !["monthly_income"] = config.monthly_income,
                     !["days_until_paycheck"] = config.days_until_paycheck,
                     !["budget_mode"] = Some(config.mode)]
    ELSE [cfg EXCEPT !["total_money"] = config.total_money,
                     !["target_end_date"] =
                         IF config.target_end_date = None THEN @
                         ELSE Some(IsoFormat(ValueOf(config.target_end_date))),
                     !["daily_spending_limit"] = config.daily_spending_limit,
                     !["budget_mode"] = Some(config.mode)]

\* The settings of the user after a configure_budget that answered 200.
ConfiguredSettings(cfg, config) ==
    IF config.mode = "paycheck"
    THEN [cfg EXCEPT !["monthly_income"] = config.monthly_income,
                     !["days_until_paycheck"] = config.days_until_paycheck,
                     !["budget_mode"] = Some(config.mode)]
    ELSE [cfg EXCEPT !["total_money"] = config.total_money,
                     !["target_end_date"] =
                         IF config.target_end_date = None THEN None
                         ELSE Some(IsoFormat(ValueOf(config.target_end_date))),
                     !["daily_spending_limit"] = config.daily_spending_limit,
                     !["budget_mode"] = Some(config.mode)]

-----------------------------------------------------------------------------
(* The inputs the operations are called with *)

Users == {1, 2}

SettingKeys == {"budget_mode", "monthly_income", "days_until_paycheck",
                "total_money", "target_end_date", "daily_spending_limit"}

\* Expense(name, amount, is_fixed) arguments; the last two amounts are invalid.
ExpenseInputs ==
    {[name |-> "rent", amount |-> 2000, is_fixed |-> TRUE],
     [name |-> "food", amount |-> 3000, is_fixed |-> FALSE],
     [name |-> "gum", amount |-> 1, is_fixed |-> FALSE],
     [name |-> "debt", amount |-> -1, is_fixed |-> TRUE],
     [name |-> "yacht", amount |-> MAX_AMOUNT + 1, is_fixed |-> FALSE]}

IncomeInputs == {-1, 0, 2000, 3000}
DaysInputs == {-5, 0, 1, 15, MAX_DAYS_UNTIL_PAYCHECK, MAX_DAYS_UNTIL_PAYCHECK + 1}
MoneyInputs == {-1, 0, 3000, 3000000}
LimitInputs == {None, Some(0), Some(1), Some(50)}
\* Target datetimes: yesterday noon, today 23:00, tomorrow 00:00, in 30 days.
TargetInputs(now_day) ==
    {None} \cup {Some([day |-> now_day + k[1], hour |-> k[2]]) :
                    k \in {<<-1, 12>>, <<0, 23>>, <<1, 0>>, <<30, 12>>}}

\* Inputs of the calculations in binary64: an expense the calculator rejects,
\* two it accepts, and incomes, pools and periods whose quotients are inexact.
Expense64Inputs ==
    {[name |-> "rent", amount |-> 2000, is_fixed |-> TRUE],
     [name |-> "phone", amount |-> 100, is_fixed |-> FALSE],
     [name |-> "refund", amount |-> -100, is_fixed |-> FALSE]}
Income64Inputs == {1000, 2000, 3000, 5000}
Days64Inputs == {7, 15, 30}
Money64Inputs == {1000, 3000}
Target64Inputs(now_day) == {Some([day |-> now_day + k, hour |-> 12]) : k \in {5, 30}}

\* Texts: a description, a blank text and one of 201 characters.
Lunch == <<"l", "u", "n", "c", "h">>
Pay == <<"p", "a", "y">>
Blank == <<" ", " ">>
TooLong == [i \in 1..(MAX_STRING_LENGTH + 1) |-> "x"]

\* add_transaction(amount, description, date, category) arguments: a purchase,
\* an income, and four the store rejects.
TransactionInputs ==
    {[amount |-> 20, description |-> Lunch, date |-> None, category |-> None],
     [amount |-> 50, description |-> Pay, date |-> None, category |-> Some("income")],
     [amount |-> -5, description |-> Pay, date |-> None, category |-> Some("income")],
     [amount |-> 0, description |-> Lunch, date |-> None, category |-> None],
     [amount |-> 20, description |-> Blank, date |-> None, category |-> None],
     [amount |-> 20, description |-> TooLong, date |-> None, category |-> None]}

\* add_expense(name, amount, is_fixed) arguments of the store.
DbExpenseInputs ==
    {[name |-> Lunch, amount |-> 2000, is_fixed |-> TRUE],
     [name |-> Blank, amount |-> 2000, is_fixed |-> TRUE]}

\* add_expense(name, amount, is_fixed) arguments with names as texts: the
\* largest amount, three names that are empty, blank or too long, and two
\* amounts out of range.
NamedExpenseInputs ==
    {[name |-> Lunch, amount |-> MAX_AMOUNT, is_fixed |-> TRUE],
     [name |-> <<>>, amount |-> 5, is_fixed |-> TRUE],
     [name |-> Blank, amount |-> 5, is_fixed |-> FALSE],
     [name |-> TooLong, amount |-> 5, is_fixed |-> TRUE],
     [name |-> Lunch, amount |-> -1, is_fixed |-> TRUE],
     [name |-> Lunch, amount |-> MAX_AMOUNT + 1, is_fixed |-> FALSE]}

\* update_expense(name, amount, is_fixed) arguments: a new name, amount and
\* kind, nothing at all, and an amount the store rejects.
UpdateExpenseInputs ==
    {[name |-> Some(Pay), amount |-> Some(5), is_fixed |-> Some(FALSE)],
     [name |-> None, amount |-> None, is_fixed |-> None],
     [name |-> None, amount |-> Some(-1), is_fixed |-> None]}

\* set_setting(key, value) arguments: the keys, and the values for a key.
SettingKeyInputs == {"budget_mode", "total_money"}
SettingValueInputs(key) ==
    IF key = "budget_mode" THEN {Some("paycheck")} ELSE {Some(1000), None}

\* timezone arguments: absent, two known zones and an unknown one.
TimezoneInputs == {None, Some("UTC"), Some("America/Denver"), Some("Mars/Base")}

\* The hours of the day at which the day boundary model looks at the clock:
\* with daylight saving time and without, the last hour of a day in
\* America/Denver and the first of the next lie among them.
ClockHours == 5..7
FirstClockHour == CHOOSE h \in ClockHours : \A g \in ClockHours : h <= g

\* A purchase stamped by the store's clock.
PurchaseInputs ==
    {[amount |-> 20, description |-> Lunch, date |-> None, category |-> None]}

\* Bodies of POST /api/transactions: dated yesterday, undated, dated
\* tomorrow, and one without a description.
DatedTransactionInputs(now_day) ==
    {[amount |-> 20, description |-> Lunch, category |-> None,
      date |-> Some([day |-> now_day - 1, hour |-> 12])],
     [amount |-> 30, description |-> Lunch, category |-> None, date |-> None],
     [amount |-> 40, description |-> Pay, category |-> Some("income"),
      date |-> Some([day |-> now_day + 1, hour |-> 12])],
     [amount |-> 20, description |-> Blank, category |-> None, date |-> None]}

\* get_number(mode, **kwargs) arguments.
ModeInputs == {"paycheck", "fixed_pool", "savings"}
NoKwargs == [monthly_income |-> None, days_until_paycheck |-> None, total_money |-> None]
KwargsInputs ==
    {NoKwargs,
     [NoKwargs EXCEPT !.monthly_income = Some(3000), !.days_until_paycheck = Some(15)],
     [NoKwargs EXCEPT !.monthly_income = Some(-1)],
     [NoKwargs EXCEPT !.total_money = Some(3000)],
     [NoKwargs EXCEPT !.total_money = Some(-1)]}

\* Expenses of the calculator whose calculations are watched for effects.
FrameExpenseInputs ==
    {[name |-> "rent", amount |-> 2000, is_fixed |-> TRUE],
     [name |-> "gum", amount |-> 1, is_fixed |-> FALSE]}

\* Bodies of POST /api/budget/configure.
NoConfig ==
    [mode |-> "paycheck", monthly_income |-> None, days_until_paycheck |-> None,
     total_money |-> None, target_end_date |-> None, daily_spending_limit |-> None]
ConfigInputs ==
    {[NoConfig EXCEPT !.monthly_income = Some(3000), !.days_until_paycheck = Some(15)],
     [NoConfig EXCEPT !.mode = "fixed_pool", !.total_money = Some(3000)],
     [NoConfig EXCEPT !.monthly_income = Some(3000)]}

\* Bodies of POST /api/budget/configure with the refinements of fixed-pool
\* mode: a target date, a daily cap, both, none, and a paycheck body that
\* carries fixed-pool fields.
RefinedConfigInputs(now_day) ==
    LET target == Some([day |-> now_day + 30, hour |-> 12])
        pool == [NoConfig EXCEPT !.mode = "fixed_pool", !.total_money = Some(3000)]
    IN  {pool,
         [pool EXCEPT !.target_end_date = target],
         [pool EXCEPT !.daily_spending_limit = Some(50)],
         [pool EXCEPT !.target_end_date = target, !.daily_spending_limit = Some(50)],
         [NoConfig EXCEPT !.monthly_income = Some(3000), !.days_until_paycheck = Some(15),
                          !.total_money = Some(100)],
         [NoConfig EXCEPT !.mode = "fixed_pool"]}

\* The client addresses requests come from.
ClientIps == {"10.0.0.1"}

\* Usernames and passwords of the requests.
Usernames == {"ann"}
Passwords == {"secret1", "wrong99"}

\* The seconds at which the clock of the API is looked at: around the ends
\* of the windows of the rate limiter, and around the end of a token's hour.
RateInstants == <<0, 59, 60, 300>>
TokenInstants == <<0, 3600, 3601>>

\* The passwords asked for in reset-password requests (8 to 72 characters).
NewPasswords == {"newsecret1"}

\* Reset tokens presented: those issued and one that never was.
TokenInputs == 1..(MaxTokens + 1)

\* The user whose ledger the ledger specification exercises.
LedgerUsers == {1}

\* No request handler is in progress.
NoHandlers == [configure |-> None, number |-> None, waiting |-> {}]

\* Bodies of configure requests that arrive while other requests are served.
ConcurrentConfigInputs(now_day) ==
    {[NoConfig EXCEPT !.monthly_income = Some(3000), !.days_until_paycheck = Some(15)],
     [NoConfig EXCEPT !.monthly_income = Some(2000), !.days_until_paycheck = Some(10)],
     [NoConfig EXCEPT !.mode = "fixed_pool", !.total_money = Some(3000),
                      !.target_end_date = Some([day |-> now_day + 30, hour |-> 12])]}

-----------------------------------------------------------------------------
(* The state machine *)

Init ==
    /\ today = StartDay
    /\ expenses = <<>>
    /\ transactions = <<>>
    /\ db_expenses = {}
    /\ db_transactions = {}
    /\ next_id = [expenses |-> 1, transactions |-> 1]
    /\ settings = [u \in Users |-> [k \in SettingKeys |-> None]]
    /\ call = [op |-> "none"]
    /\ clock_hour = 12
    /\ utc_now = 0
    /\ rate_limit_cache = [ip \in ClientIps |-> <<>>]
    /\ reset_tokens = [t \in {} |-> None]
    /\ db_users = <<>>
    /\ admitted = [ip \in ClientIps |-> [e \in Endpoints |-> <<>>]]
    /\ issued = <<>>
    /\ configured = [u \in Users |-> <<>>]
    /\ in_flight = NoHandlers

\* The system date passes midnight.
Tick ==
    /\ today < StartDay + MaxTicks
    /\ today' = today + 1
    /\ call' = [op |-> "tick"]
    /\ UNCHANGED <<api_vars, auth_vars, clock_hour, expenses, transactions, db_expenses,
                   db_transactions, next_id, settings>>

\* BudgetCalculator.add_expense(name, amount, is_fixed)
AddExpense(e) ==
    LET err == ExpensePostInit(e.amount)
    IN  /\ Len(expenses) < MaxExpenses
        /\ expenses' = IF err = NoError THEN Append(expenses, e) ELSE expenses
        /\ call' = [op |-> "add_expense", args |-> e,
                    ret |-> IF err = NoError THEN Ok(None)
                            ELSE Raise("ValueError", err)]
        /\ UNCHANGED <<api_vars, auth_vars, clock_hour, today, transactions, db_expenses, db_transactions,
                       next_id, settings>>

\* BudgetCalculator.get_total_expenses()
GetTotalExpenses ==
    /\ call' = [op |-> "get_total_expenses", ret |-> Ok(get_total_expenses(expenses))]
    /\ UNCHANGED <<api_vars, auth_vars, clock_hour, today, expenses, transactions, db_expenses, db_transactions,
                   next_id, settings>>

\* A faulty variant: a deficit is written back into the ledger as an expense.
CalculatePaycheckMode_Recording(monthly_income, days_until_paycheck) ==
    LET ret == calculate_paycheck_mode(expenses, monthly_income, days_until_paycheck)
    IN  /\ call' = [op |-> "calculate_paycheck_mode",
                    args |-> [monthly_income |-> monthly_income,
                              days_until_paycheck |-> days_until_paycheck],
                    ret |-> ret]
        /\ expenses' = IF ret.status = "ok" /\ ret.value.is_deficit
                       THEN Append(expenses, [name |-> "deficit", is_fixed |-> TRUE,
                                              amount |-> 0])
                       ELSE expenses
        /\ UNCHANGED <<api_vars, auth_vars, clock_hour, today, transactions,
                       db_expenses, db_transactions, next_id, settings>>

\* BudgetCalculator.calculate_paycheck_mode(monthly_income, days_until_paycheck)
CalculatePaycheckMode(monthly_income, days_until_paycheck) ==
    /\ call' = [op |-> "calculate_paycheck_mode",
                args |-> [monthly_income |-> monthly_income,
                          days_until_paycheck |-> days_until_paycheck],
                ret |-> calculate_paycheck_mode(expenses, monthly_income,
                                                days_until_paycheck)]
    /\ UNCHANGED <<api_vars, auth_vars, clock_hour, today, expenses, transactions, db_expenses, db_transactions,
                   next_id, settings>>

\* BudgetCalculator.calculate_fixed_pool_mode(total_money, target_end_date,
\*                                            daily_spending_limit)
CalculateFixedPoolMode(total_money, target_end_date, daily_spending_limit) ==
    /\ call' = [op |-> "calculate_fixed_pool_mode",
                args |-> [total_money |-> total_money,
                          target_end_date |-> target_end_date,
                          daily_spending_limit |-> daily_spending_limit],
                ret |-> calculate_fixed_pool_mode(expenses, today, total_money,
                                                  target_end_date,
                                                  daily_spending_limit)]
    /\ UNCHANGED <<api_vars, auth_vars, clock_hour, today, expenses, transactions, db_expenses, db_transactions,
                   next_id, settings>>

\* BudgetCalculator.get_number(mode, **kwargs)
GetNumber(mode, kwargs) ==
    /\ call' = [op |-> "get_number", args |-> [mode |-> mode, kwargs |-> kwargs],
                ret |-> get_number(expenses, today, mode, kwargs)]
    /\ UNCHANGED <<api_vars, auth_vars, clock_hour, today, expenses, transactions,
                   db_expenses, db_transactions, next_id, settings>>

\* The calculation engine alone: one calculator, its expenses and the clock.
NextEngine ==
    \/ Tick
    \/ \E e \in ExpenseInputs : AddExpense(e)
    \/ GetTotalExpenses
    \/ \E i \in IncomeInputs, d \in DaysInputs : CalculatePaycheckMode(i, d)
    \/ \E m \in MoneyInputs, t \in TargetInputs(today), l \in LimitInputs :
          CalculateFixedPoolMode(m, t, l)

SpecEngine == Init /\ [][NextEngine]_vars

\* BudgetCalculator.calculate_paycheck_mode(monthly_income, days_until_paycheck)
\* with its figures in binary64.
CalculatePaycheckMode64(monthly_income, days_until_paycheck) ==
    LET err == PaycheckValidation(monthly_income, days_until_paycheck)
    IN  /\ call' = [op |-> "calculate_paycheck_mode",
                    args |-> [monthly_income |-> monthly_income,
                              days_until_paycheck |-> days_until_paycheck],
                    ret |-> IF err # NoError THEN Raise("ValueError", err)
                            ELSE Ok(PaycheckFigures64(expenses, monthly_income,
                                                      days_until_paycheck))]
        /\ UNCHANGED <<api_vars, auth_vars, clock_hour, today, expenses, transactions,
                       db_expenses, db_transactions, next_id, settings>>

\* BudgetCalculator.calculate_fixed_pool_mode(total_money, target_end_date)
\* with the figures of its target-date branch in binary64; which branch is
\* taken and whether it raises is decided as in calculate_fixed_pool_mode.
CalculateFixedPoolMode64(total_money, target_end_date) ==
    LET ret == calculate_fixed_pool_mode(expenses, today, total_money,
                                         target_end_date, None)
        days_until_target == DateOf(ValueOf(target_end_date)) - today
    IN  /\ call' = [op |-> "calculate_fixed_pool_mode",
                    args |-> [total_money |-> total_money,
                              target_end_date |-> target_end_date,
                              daily_spending_limit |-> None],
                    ret |-> IF ret.status = "ok"
                               /\ ret.value.calculation_mode = "target_date"
                            THEN Ok(TargetDateFigures64(expenses, total_money,
                                                        days_until_target))
                            ELSE ret]
        /\ UNCHANGED <<api_vars, auth_vars, clock_hour, today, expenses, transactions,
                       db_expenses, db_transactions, next_id, settings>>

\* The calculation engine with the arithmetic of the machine.
NextBinary64 ==
    \/ \E e \in Expense64Inputs : AddExpense(e)
    \/ \E i \in Income64Inputs, d \in Days64Inputs : CalculatePaycheckMode64(i, d)
    \/ \E m \in Money64Inputs, t \in Target64Inputs(today) :
          CalculateFixedPoolMode64(m, t)

SpecBinary64 == Init /\ [][NextBinary64]_vars

\* BudgetCalculator.add_transaction(amount, description, date, category)
AddTransaction(t) ==
    LET err == TransactionPostInit(t.amount)
        date == IF t.date = None THEN Now(today, clock_hour) ELSE ValueOf(t.date)
    IN  /\ Len(transactions) < MaxTransactions
        /\ transactions' = IF err = NoError
                           THEN Append(transactions, [t EXCEPT !.date = date])
                           ELSE transactions
        /\ call' = [op |-> "add_transaction", args |-> t,
                    ret |-> IF err = NoError THEN Ok(None)
                            ELSE Raise("ValueError", err)]
        /\ UNCHANGED <<api_vars, auth_vars, clock_hour, today, expenses, db_expenses, db_transactions,
                       next_id, settings>>

\* BudgetCalculator.get_today_spending()
GetTodaySpending ==
    /\ call' = [op |-> "get_today_spending",
                ret |-> Ok(get_today_spending(transactions, today))]
    /\ UNCHANGED <<api_vars, auth_vars, clock_hour, today, expenses, transactions, db_expenses, db_transactions,
                   next_id, settings>>

\* BudgetCalculator.get_period_spending(start_date, end_date)
GetPeriodSpending(start_date, end_date) ==
    /\ call' = [op |-> "get_period_spending",
                args |-> [start_date |-> start_date, end_date |-> end_date],
                ret |-> Ok(get_period_spending(transactions, start_date, end_date))]
    /\ UNCHANGED <<api_vars, auth_vars, clock_hour, today, expenses, transactions, db_expenses, db_transactions,
                   next_id, settings>>

\* The calculator's transaction ledger alone.
NextSpending ==
    \/ Tick
    \/ \E t \in TransactionInputs : AddTransaction(t)
    \/ GetTodaySpending
    \/ \E a, b \in StartDay..(StartDay + MaxTicks) :
          GetPeriodSpending([day |-> a, hour |-> 0], [day |-> b, hour |-> 23])

SpecSpending == Init /\ [][NextSpending]_vars

\* EncryptedDatabase.add_expense(name, amount, user_id, is_fixed)
DbAddExpense(user_id, e) ==
    LET err == DbExpenseValidation(e.name, e.amount)
        row == [id |-> next_id.expenses, user_id |-> user_id,
                name |-> Strip(e.name), amount |-> e.amount, is_fixed |-> e.is_fixed]
    IN  /\ next_id.expenses <= MaxRows
        /\ db_expenses' = IF err = NoError THEN db_expenses \cup {row} ELSE db_expenses
        /\ next_id' = IF err = NoError
                      THEN [next_id EXCEPT !.expenses = @ + 1] ELSE next_id
        /\ call' = [op |-> "db.add_expense", user |-> user_id, args |-> e,
                    ret |-> IF err = NoError THEN Ok(row.id)
                            ELSE Raise("ValueError", err)]
        /\ UNCHANGED <<api_vars, auth_vars, clock_hour, today, expenses, transactions, db_transactions, settings>>

\* EncryptedDatabase.add_transaction(amount, description, user_id, date, category)
DbAddTransaction(user_id, t) ==
    LET err == DbTransactionValidation(t.amount, t.description)
        row == NewTransactionRow(next_id.transactions, user_id,
                                 Now(today, clock_hour), t.amount,
                                 t.description, t.date, t.category)
    IN  /\ next_id.transactions <= MaxRows
        /\ db_transactions' = IF err = NoError
                              THEN db_transactions \cup {row} ELSE db_transactions
        /\ next_id' = IF err = NoError
                      THEN [next_id EXCEPT !.transactions = @ + 1] ELSE next_id
        /\ call' = [op |-> "db.add_transaction", user |-> user_id, args |-> t,
                    ret |-> IF err = NoError THEN Ok(row.id)
                            ELSE Raise("ValueError", err)]
        /\ UNCHANGED <<api_vars, auth_vars, clock_hour, today, expenses, transactions, db_expenses, settings>>

\* EncryptedDatabase.delete_transaction(transaction_id, user_id)
DbDeleteTransaction(user_id, transaction_id) ==
    /\ db_transactions' =
          {r \in db_transactions : ~(r.id = transaction_id /\ r.user_id = user_id)}
    /\ call' = [op |-> "db.delete_transaction", user |-> user_id,
                args |-> transaction_id, ret |-> Ok(None)]
    /\ UNCHANGED <<api_vars, auth_vars, clock_hour, today, expenses, transactions, db_expenses, next_id, settings>>

\* EncryptedDatabase.get_total_spending_today(user_id)
DbGetTotalSpendingToday(user_id) ==
    /\ call' = [op |-> "db.get_total_spending_today", user |-> user_id,
                ret |-> Ok(get_total_spending_today(db_transactions, user_id, today))]
    /\ UNCHANGED <<api_vars, auth_vars, clock_hour, today, expenses, transactions, db_expenses, db_transactions,
                   next_id, settings>>

\* POST /api/transactions: the row is inserted and the answer is the first
\* row of get_transactions(user_id, limit=1); a ValueError is answered 400.
CreateTransaction(user_id, t) ==
    LET err == DbTransactionValidation(t.amount, t.description)
        row == NewTransactionRow(next_id.transactions, user_id,
                                 Now(today, clock_hour), t.amount,
                                 t.description, t.date, t.category)
    IN  /\ next_id.transactions <= MaxRows
        /\ db_transactions' = IF err = NoError
                              THEN db_transactions \cup {row} ELSE db_transactions
        /\ next_id' = IF err = NoError
                      THEN [next_id EXCEPT !.transactions = @ + 1] ELSE next_id
        /\ IF err = NoError
           THEN \E first \in FirstByDate(db_transactions \cup {row}, user_id) :
                   call' = [op |-> "create_transaction", user |-> user_id,
                            args |-> t, txn_id |-> Some(row.id),
                            ret |-> Http(201, first)]
           ELSE call' = [op |-> "create_transaction", user |-> user_id,
                         args |-> t, txn_id |-> None, ret |-> Http(400, err)]
        /\ UNCHANGED <<api_vars, auth_vars, clock_hour, today, expenses, transactions,
                       db_expenses, settings>>

\* The accepted bodies with one more: the newest first, the last two kept.
Latest(bodies, config) == <<config>> \o SubSeq(bodies, 1, IF bodies = <<>> THEN 0 ELSE 1)

\* POST /api/budget/configure
ConfigureBudget(user_id, config) ==
    LET status == ConfigureStatus(config)
    IN  /\ settings' = IF status = 200
                       THEN [settings EXCEPT ![user_id] = ConfiguredSettings(@, config)]
                       ELSE settings
        /\ configured' = IF status = 200
                         THEN [configured EXCEPT ![user_id] = Latest(@, config)]
                         ELSE configured
        /\ call' = [op |-> "configure_budget", user |-> user_id, args |-> config,
                    ret |-> Http(status, None)]
        /\ UNCHANGED <<in_flight, auth_vars, clock_hour, today, expenses, transactions, db_expenses, db_transactions,
                       next_id>>

\* GET /api/number
ApiGetTheNumber(user_id) ==
    /\ call' = [op |-> "get_the_number", user |-> user_id,
                ret |-> get_the_number(settings[user_id], db_expenses,
                                       db_transactions, user_id, today)]
    /\ UNCHANGED <<api_vars, auth_vars, clock_hour, today, expenses, transactions, db_expenses, db_transactions,
                   next_id, settings>>

\* configure_budget, lines 234-266: the set_setting calls of an accepted
\* body, in the order the handler makes them, each one a commit of its own.
SettingWrites(config) ==
    IF config.mode = "paycheck"
    THEN << <<"monthly_income", config.monthly_income>>,
            <<"days_until_paycheck", config.days_until_paycheck>>,
            <<"budget_mode", Some(config.mode)>> >>
    ELSE << <<"total_money", config.total_money>>,
            <<"target_end_date", IF config.target_end_date = None THEN None
                                 ELSE Some(IsoFormat(ValueOf(config.target_end_date)))>>,
            <<"daily_spending_limit", config.daily_spending_limit>>,
            <<"budget_mode", Some(config.mode)>> >>

\* get_the_number, lines 155-182: the keys it asks get_setting for after
\* budget_mode, in order.
SettingReads(budget_mode) ==
    IF budget_mode = None THEN <<>>
    ELSE IF budget_mode = Some("paycheck")
    THEN <<"monthly_income", "days_until_paycheck">>
    ELSE <<"total_money", "target_end_date", "daily_spending_limit">>

\* The keys get_the_number reads in all, given what it has read so far.
ReadPlan(read) ==
    IF read = <<>> THEN <<"budget_mode">>
    ELSE <<"budget_mode">> \o SettingReads(read[1][2])

\* The settings as get_the_number has read them.
ReadSettings(read) ==
    [k \in SettingKeys |->
        IF \E i \in DOMAIN read : read[i][1] = k
        THEN read[CHOOSE i \in DOMAIN read : read[i][1] = k][2]
        ELSE None]

\* A faulty variant: every request is served by a thread of its own.
EventLoopFree_Threaded == TRUE

\* The handlers are coroutines (async def) without an await, run by the one
\* event loop of the process: a handler is started only when no other is in
\* progress, and runs until it has answered.
EventLoopFree == in_flight.configure = None /\ in_flight.number = None

\* A configure request of the user is waiting or in progress.
ConfigurePresent(user_id) ==
    \/ in_flight.configure # None /\ ValueOf(in_flight.configure).user = user_id
    \/ \E r \in in_flight.waiting : r.kind = "configure" /\ r.user = user_id

\* History: the number requests of the user marked as overlapping a
\* configure request.
Overlapping(reqs, user_id) ==
    {IF r.kind = "number" /\ r.user = user_id
     THEN [r EXCEPT !.overlapped = TRUE] ELSE r : r \in reqs}

\* History: the number handler in progress marked as overlapping a configure
\* request of the user, whose stored configuration before and after the
\* request is noted when the request is started.
NumberOverlapping(number, user_id, views) ==
    IF number # None /\ ValueOf(number).user = user_id
    THEN Some([ValueOf(number) EXCEPT !.overlapped = TRUE, !.views = @ \cup views])
    ELSE number

\* A request reaches the server: POST /api/budget/configure or GET /api/number.
Arrive(kind, user_id, config) ==
    LET req == [kind |-> kind, user |-> user_id, config |-> config,
                overlapped |-> kind = "number" /\ ConfigurePresent(user_id)]
    IN  /\ \A r \in in_flight.waiting :
               ~(r.kind = kind /\ r.user = user_id /\ r.config = config)
        /\ in_flight' =
              [in_flight EXCEPT
                  !.waiting = (IF kind = "configure" THEN Overlapping(@, user_id)
                               ELSE @) \cup {req},
                  !.number = IF kind = "configure"
                             THEN NumberOverlapping(@, user_id, {}) ELSE @]
        /\ call' = [op |-> "request", user |-> user_id, args |-> req]
        /\ UNCHANGED <<configured, auth_vars, clock_hour, today, expenses, transactions,
                       db_expenses, db_transactions, next_id, settings>>

\* configure_budget is started: lines 234-246 answer a body that is not
\* accepted at once, before anything is written.
StartConfigure(req) ==
    LET status == ConfigureStatus(req.config)
        before == settings[req.user]
    IN  /\ req \in in_flight.waiting
        /\ req.kind = "configure"
        /\ in_flight.configure = None
        /\ EventLoopFree
        /\ in_flight' =
              [in_flight EXCEPT
                  !.waiting = @ \ {req},
                  !.configure = IF status # 200 THEN None
                                ELSE Some([user |-> req.user, config |-> req.config,
                                           written |-> 0, before |-> before]),
                  !.number = IF status # 200 THEN @
                             ELSE NumberOverlapping(@, req.user,
                                      {before, ConfiguredSettings(before, req.config)})]
        /\ call' = IF status # 200
                   THEN [op |-> "configure_budget", user |-> req.user,
                         args |-> req.config, ret |-> Http(status, None)]
                   ELSE [op |-> "started", user |-> req.user, args |-> req]
        /\ UNCHANGED <<configured, auth_vars, clock_hour, today, expenses, transactions,
                       db_expenses, db_transactions, next_id, settings>>

\* configure_budget makes its next set_setting call.
ConfigureWrite ==
    /\ in_flight.configure # None
    /\ LET c == ValueOf(in_flight.configure)
           writes == SettingWrites(c.config)
       IN  /\ c.written < Len(writes)
           /\ LET w == writes[c.written + 1]
              IN  /\ settings' = set_setting(settings, w[1], w[2], c.user)
                  /\ call' = [op |-> "db.set_setting", user |-> c.user,
                              args |-> [key |-> w[1], value |-> w[2]], ret |-> Ok(None)]
           /\ in_flight' = [in_flight EXCEPT
                               !.configure = Some([c EXCEPT !.written = @ + 1])]
    /\ UNCHANGED <<configured, auth_vars, clock_hour, today, expenses, transactions,
                   db_expenses, db_transactions, next_id>>

\* configure_budget answers, line 268.
AnswerConfigure ==
    /\ in_flight.configure # None
    /\ LET c == ValueOf(in_flight.configure)
       IN  /\ c.written = Len(SettingWrites(c.config))
           /\ configured' = [configured EXCEPT ![c.user] = Latest(@, c.config)]
           /\ call' = [op |-> "configure_budget", user |-> c.user, args |-> c.config,
                       ret |-> Http(200, None)]
    /\ in_flight' = [in_flight EXCEPT !.configure = None]
    /\ UNCHANGED <<auth_vars, clock_hour, today, expenses, transactions,
                   db_expenses, db_transactions, next_id, settings>>

\* get_the_number is started.
StartNumber(req) ==
    LET c == in_flight.configure
        views == IF c # None /\ ValueOf(c).user = req.user
                 THEN {ValueOf(c).before,
                       ConfiguredSettings(ValueOf(c).before, ValueOf(c).config)}
                 ELSE {settings[req.user]}
    IN  /\ req \in in_flight.waiting
        /\ req.kind = "number"
        /\ in_flight.number = None
        /\ EventLoopFree
        /\ in_flight' =
              [in_flight EXCEPT
                  !.waiting = @ \ {req},
                  !.number = Some([user |-> req.user, read |-> <<>>, views |-> views,
                                   overlapped |-> req.overlapped])]
        /\ call' = [op |-> "started", user |-> req.user, args |-> req]
        /\ UNCHANGED <<configured, auth_vars, clock_hour, today, expenses, transactions,
                       db_expenses, db_transactions, next_id, settings>>

\* get_the_number makes its next get_setting call.
NumberRead ==
    /\ in_flight.number # None
    /\ LET n == ValueOf(in_flight.number)
           plan == ReadPlan(n.read)
       IN  /\ Len(n.read) < Len(plan)
           /\ LET key == plan[Len(n.read) + 1]
                  value == get_setting(settings, key, n.user)
              IN  /\ in_flight' =
                        [in_flight EXCEPT
                            !.number = Some([n EXCEPT !.read = Append(@, <<key, value>>)])]
                  /\ call' = [op |-> "db.get_setting", user |-> n.user,
                              args |-> [key |-> key], ret |-> Ok(value)]
    /\ UNCHANGED <<configured, auth_vars, clock_hour, today, expenses, transactions,
                   db_expenses, db_transactions, next_id, settings>>

\* get_the_number computes from what it has read and answers, lines 158-219.
AnswerNumber ==
    /\ in_flight.number # None
    /\ LET n == ValueOf(in_flight.number)
       IN  /\ Len(n.read) = Len(ReadPlan(n.read))
           /\ call' = [op |-> "get_the_number", user |-> n.user,
                       ret |-> get_the_number(ReadSettings(n.read), db_expenses,
                                              db_transactions, n.user, today),
                       read |-> n.read, views |-> n.views,
                       overlapped |-> n.overlapped]
    /\ in_flight' = [in_flight EXCEPT !.number = None]
    /\ UNCHANGED <<configured, auth_vars, clock_hour, today, expenses, transactions,
                   db_expenses, db_transactions, next_id, settings>>

\* Requests of one user that arrive at any time and are served by the
\* event loop.
NextConcurrent ==
    \/ \E u \in LedgerUsers, c \in ConcurrentConfigInputs(today) :
          Arrive("configure", u, c)
    \/ \E u \in LedgerUsers : Arrive("number", u, NoConfig)
    \/ \E req \in in_flight.waiting : StartConfigure(req)
    \/ ConfigureWrite
    \/ AnswerConfigure
    \/ \E req \in in_flight.waiting : StartNumber(req)
    \/ NumberRead
    \/ AnswerNumber

SpecConcurrent == Init /\ [][NextConcurrent]_vars

\* The store's ledger of one user and the "current number" endpoint.
NextLedger ==
    \/ Tick
    \/ \E u \in LedgerUsers, c \in ConfigInputs : ConfigureBudget(u, c)
    \/ \E u \in LedgerUsers, e \in DbExpenseInputs : DbAddExpense(u, e)
    \/ \E u \in LedgerUsers, t \in TransactionInputs : DbAddTransaction(u, t)
    \/ \E u \in LedgerUsers, id \in 1..MaxRows : DbDeleteTransaction(u, id)
    \/ \E u \in LedgerUsers : DbGetTotalSpendingToday(u)
    \/ \E u \in LedgerUsers : ApiGetTheNumber(u)

SpecLedger == Init /\ [][NextLedger]_vars

\* One user who records and deletes transactions through the API.
NextTransactions ==
    \/ Tick
    \/ \E u \in LedgerUsers, t \in DatedTransactionInputs(today) : CreateTransaction(u, t)
    \/ \E u \in LedgerUsers, id \in 1..MaxRows : DbDeleteTransaction(u, id)

SpecTransactions == Init /\ [][NextTransactions]_vars

\* One user who configures the budget again and again and asks for the number.
NextConfigure ==
    \/ \E u \in LedgerUsers, c \in RefinedConfigInputs(today) : ConfigureBudget(u, c)
    \/ \E u \in LedgerUsers, e \in DbExpenseInputs : DbAddExpense(u, e)
    \/ \E u \in LedgerUsers : ApiGetTheNumber(u)

SpecConfigure == Init /\ [][NextConfigure]_vars

\* One calculator with expenses and transactions, and every calculation.
NextFrame ==
    \/ \E e \in FrameExpenseInputs : AddExpense(e)
    \/ \E t \in PurchaseInputs : AddTransaction(t)
    \/ \E i \in IncomeInputs, d \in DaysInputs : CalculatePaycheckMode(i, d)
    \/ \E m \in MoneyInputs, t \in TargetInputs(today), l \in LimitInputs :
          CalculateFixedPoolMode(m, t, l)
    \/ \E mode \in ModeInputs, kwargs \in KwargsInputs : GetNumber(mode, kwargs)

SpecFrame == Init /\ [][NextFrame]_vars

\* The state in which the day boundary model starts: the morning (UTC) of
\* the day daylight saving time starts.
InitBoundary ==
    /\ today = DstDay
    /\ clock_hour = FirstClockHour
    /\ expenses = <<>>
    /\ transactions = <<>>
    /\ db_expenses = {}
    /\ db_transactions = {}
    /\ next_id = [expenses |-> 1, transactions |-> 1]
    /\ settings = [u \in Users |-> [k \in SettingKeys |-> None]]
    /\ call = [op |-> "none"]
    /\ utc_now = 0
    /\ rate_limit_cache = [ip \in ClientIps |-> <<>>]
    /\ reset_tokens = [t \in {} |-> None]
    /\ db_users = <<>>
    /\ admitted = [ip \in ClientIps |-> [e \in Endpoints |-> <<>>]]
    /\ issued = <<>>
    /\ configured = [u \in Users |-> <<>>]
    /\ in_flight = NoHandlers

\* An hour passes on the system clock; after the last hour looked at, the
\* clock is looked at again the next day.
TickHour ==
    /\ \/ /\ clock_hour + 1 \in ClockHours
          /\ clock_hour' = clock_hour + 1
          /\ today' = today
       \/ /\ clock_hour + 1 \notin ClockHours
          /\ today < DstDay + MaxTicks
          /\ clock_hour' = FirstClockHour
          /\ today' = today + 1
    /\ call' = [op |-> "tick"]
    /\ UNCHANGED <<api_vars, auth_vars, expenses, transactions, db_expenses,
                   db_transactions, next_id, settings>>

\* get_user_day_boundaries_utc(user_timezone)
GetUserDayBoundariesUtc(user_timezone) ==
    /\ call' = [op |-> "get_user_day_boundaries_utc", args |-> user_timezone,
                ret |-> Ok(get_user_day_boundaries_utc(user_timezone,
                               ServerInstant(today, clock_hour)))]
    /\ UNCHANGED <<api_vars, auth_vars, clock_hour, today, expenses, transactions,
                   db_expenses, db_transactions, next_id, settings>>

\* get_user_today(user_timezone)
GetUserToday(user_timezone) ==
    /\ call' = [op |-> "get_user_today", args |-> user_timezone,
                ret |-> Ok(get_user_today(user_timezone,
                               ServerInstant(today, clock_hour)))]
    /\ UNCHANGED <<api_vars, auth_vars, clock_hour, today, expenses, transactions,
                   db_expenses, db_transactions, next_id, settings>>

\* The day boundary: purchases stamped by the store and today's total, hour
\* by hour, next to the timezone helpers.
NextBoundary ==
    \/ TickHour
    \/ \E u \in LedgerUsers, t \in PurchaseInputs : DbAddTransaction(u, t)
    \/ \E u \in LedgerUsers : DbGetTotalSpendingToday(u)
    \/ \E z \in TimezoneInputs : GetUserDayBoundariesUtc(z)
    \/ \E z \in TimezoneInputs : GetUserToday(z)

SpecBoundary == InitBoundary /\ [][NextBoundary]_vars

\* The clock of the API moves on to the next instant of a schedule.
AdvanceClock(instants) ==
    /\ \E i \in 1..(Len(instants) - 1) :
          /\ instants[i] = utc_now
          /\ utc_now' = instants[i + 1]
    /\ call' = [op |-> "tick"]
    /\ UNCHANGED <<api_vars, rate_limit_cache, reset_tokens, db_users, admitted, issued,
                   clock_hour, today, expenses, transactions, db_expenses,
                   db_transactions, next_id, settings>>

\* The history of a request that went through check_rate_limit.
Admit(endpoint, client_ip, limited) ==
    IF limited THEN admitted
    ELSE [admitted EXCEPT ![client_ip][endpoint] = Append(@, utc_now)]

\* POST /api/auth/register
Register(client_ip, username, password) ==
    LET limit == RateLimitOf("register")
        checked == check_rate_limit(rate_limit_cache, client_ip, utc_now,
                                    limit.max_requests, limit.window_seconds)
        existing_user == get_user_by_username(db_users, username)
        create == ~checked.limited /\ existing_user = None
        user_id == Len(db_users) + 1
    IN  /\ rate_limit_cache' = checked.cache
        /\ admitted' = Admit("register", client_ip, checked.limited)
        /\ db_users' = IF create
                       THEN Append(db_users, [id |-> user_id, username |-> username,
                                    password_hash |-> hash_password(password)])
                       ELSE db_users
        /\ call' = [op |-> "register", ip |-> client_ip,
                    args |-> [username |-> username, password |-> password],
                    ret |-> IF checked.limited
                            THEN Http(429, "Rate limit exceeded. Try again in 60 seconds.")
                            ELSE IF ~create
                            THEN Http(500, "Error registering user: 400: Username already exists")
                            ELSE Http(201, [user_id |-> user_id])]
        /\ UNCHANGED <<api_vars, utc_now, reset_tokens, issued, clock_hour, today, expenses,
                       transactions, db_expenses, db_transactions, next_id, settings>>

\* POST /api/auth/login
Login(client_ip, username, password) ==
    LET limit == RateLimitOf("login")
        checked == check_rate_limit(rate_limit_cache, client_ip, utc_now,
                                    limit.max_requests, limit.window_seconds)
        user == get_user_by_username(db_users, username)
    IN  /\ rate_limit_cache' = checked.cache
        /\ admitted' = Admit("login", client_ip, checked.limited)
        /\ call' = [op |-> "login", ip |-> client_ip,
                    args |-> [username |-> username, password |-> password],
                    ret |-> IF checked.limited
                            THEN Http(429, "Rate limit exceeded. Try again in 60 seconds.")
                            ELSE IF user = None
                            THEN Http(401, "Invalid username or password")
                            ELSE IF ~verify_password(password, ValueOf(user).password_hash)
                            THEN Http(401, "Invalid username or password")
                            ELSE Http(200, [user_id |-> ValueOf(user).id])]
        /\ UNCHANGED <<api_vars, utc_now, reset_tokens, db_users, issued, clock_hour, today,
                       expenses, transactions, db_expenses, db_transactions,
                       next_id, settings>>

\* POST /api/auth/forgot-password
ForgotPassword(client_ip, username) ==
    LET limit == RateLimitOf("forgot_password")
        checked == check_rate_limit(rate_limit_cache, client_ip, utc_now,
                                    limit.max_requests, limit.window_seconds)
        reset_token == FreshToken(issued)
    IN  /\ rate_limit_cache' = checked.cache
        /\ admitted' = Admit("forgot_password", client_ip, checked.limited)
        /\ reset_tokens' = IF checked.limited THEN reset_tokens
                           ELSE generate_reset_token(reset_tokens, reset_token,
                                                     username, utc_now)
        /\ issued' = IF checked.limited THEN issued
                     ELSE Append(issued, [username |-> username, at |-> utc_now,
                                          dead |-> FALSE])
        /\ call' = [op |-> "forgot_password", ip |-> client_ip,
                    args |-> [username |-> username],
                    ret |-> IF checked.limited
                            THEN Http(429, "Rate limit exceeded. Try again in 300 seconds.")
                            ELSE Http(200, [reset_token |-> reset_token,
                                            expires_in |-> 3600])]
        /\ UNCHANGED <<api_vars, utc_now, db_users, clock_hour, today, expenses, transactions,
                       db_expenses, db_transactions, next_id, settings>>

\* The history of a token that left the stored tokens.
Dead(token) ==
    IF token \in DOMAIN issued /\ token \notin DOMAIN reset_tokens'
    THEN [issued EXCEPT ![token].dead = TRUE] ELSE issued

\* auth.verify_reset_token(token)
VerifyResetToken(token) ==
    LET verified == verify_reset_token(reset_tokens, token, utc_now)
    IN  /\ reset_tokens' = verified.tokens
        /\ issued' = Dead(token)
        /\ call' = [op |-> "verify_reset_token", args |-> token,
                    ret |-> Ok(verified.ret)]
        /\ UNCHANGED <<api_vars, utc_now, rate_limit_cache, db_users, admitted, clock_hour,
                       today, expenses, transactions, db_expenses, db_transactions,
                       next_id, settings>>

\* auth.invalidate_reset_token(token)
InvalidateResetToken(token) ==
    /\ reset_tokens' = invalidate_reset_token(reset_tokens, token)
    /\ issued' = Dead(token)
    /\ call' = [op |-> "invalidate_reset_token", args |-> token, ret |-> Ok(None)]
    /\ UNCHANGED <<api_vars, utc_now, rate_limit_cache, db_users, admitted, clock_hour,
                   today, expenses, transactions, db_expenses, db_transactions,
                   next_id, settings>>

\* POST /api/auth/reset-password.  EncryptedDatabase has no method
\* update_user_password: line 817 raises AttributeError, which no handler
\* catches, so the request is answered 500 before the password is written
\* and before invalidate_reset_token is reached.
ResetPassword(reset_token, new_password) ==
    LET verified == verify_reset_token(reset_tokens, reset_token, utc_now)
        username == verified.ret
        user == IF username = None THEN None
                ELSE get_user_by_username(db_users, ValueOf(username))
    IN  /\ reset_tokens' = verified.tokens
        /\ issued' = Dead(reset_token)
        /\ call' = [op |-> "reset_password",
                    args |-> [reset_token |-> reset_token, new_password |-> new_password],
                    ret |-> IF username = None
                            THEN Http(400, "Invalid or expired reset token")
                            ELSE IF user = None
                            THEN Http(404, "User not found")
                            ELSE Http(500, "Internal Server Error")]
        /\ UNCHANGED <<api_vars, utc_now, rate_limit_cache, db_users, admitted, clock_hour,
                       today, expenses, transactions, db_expenses, db_transactions,
                       next_id, settings>>

\* The requests the rate limiter has let through, over all endpoints.
RECURSIVE CountAdmitted(_)
CountAdmitted(ips) ==
    IF ips = {} THEN 0
    ELSE LET ip == CHOOSE x \in ips : TRUE
         IN  Len(admitted[ip]["register"]) + Len(admitted[ip]["login"])
             + Len(admitted[ip]["forgot_password"]) + CountAdmitted(ips \ {ip})

\* The rate limited endpoints, called in any order as the clock moves on.
NextRateLimit ==
    \/ AdvanceClock(RateInstants)
    \/ /\ CountAdmitted(ClientIps) < MaxAdmitted
       /\ \/ \E ip \in ClientIps, u \in Usernames : Register(ip, u, "secret1")
          \/ \E ip \in ClientIps, u \in Usernames, p \in Passwords : Login(ip, u, p)
          \/ \E ip \in ClientIps, u \in Usernames : ForgotPassword(ip, u)

SpecRateLimit == Init /\ [][NextRateLimit]_vars

\* Reset tokens issued, verified and invalidated as the clock moves on.
NextResetTokens ==
    \/ AdvanceClock(TokenInstants)
    \/ /\ Len(issued) < MaxTokens
       /\ \E ip \in ClientIps, u \in Usernames \cup {"bob"} : ForgotPassword(ip, u)
    \/ \E token \in TokenInputs : VerifyResetToken(token)
    \/ \E token \in TokenInputs : InvalidateResetToken(token)

SpecResetTokens == Init /\ [][NextResetTokens]_vars

\* EncryptedDatabase.set_setting(key, value, user_id)
DbSetSetting(user_id, key, value) ==
    /\ settings' = set_setting(settings, key, value, user_id)
    /\ call' = [op |-> "db.set_setting", user |-> user_id,
                args |-> [key |-> key, value |-> value], ret |-> Ok(None)]
    /\ UNCHANGED <<api_vars, auth_vars, clock_hour, today, expenses, transactions,
                   db_expenses, db_transactions, next_id>>

\* EncryptedDatabase.get_setting(key, user_id)
DbGetSetting(user_id, key) ==
    /\ call' = [op |-> "db.get_setting", user |-> user_id, args |-> [key |-> key],
                ret |-> Ok(get_setting(settings, key, user_id))]
    /\ UNCHANGED <<api_vars, auth_vars, clock_hour, today, expenses, transactions,
                   db_expenses, db_transactions, next_id, settings>>

\* EncryptedDatabase.get_expenses(user_id)
DbGetExpenses(user_id) ==
    /\ call' = [op |-> "db.get_expenses", user |-> user_id,
                ret |-> Ok(get_expenses(db_expenses, user_id))]
    /\ UNCHANGED <<api_vars, auth_vars, clock_hour, today, expenses, transactions,
                   db_expenses, db_transactions, next_id, settings>>

\* EncryptedDatabase.get_expense_by_id(expense_id, user_id)
DbGetExpenseById(user_id, expense_id) ==
    /\ call' = [op |-> "db.get_expense_by_id", user |-> user_id, args |-> expense_id,
                ret |-> Ok(get_expense_by_id(db_expenses, expense_id, user_id))]
    /\ UNCHANGED <<api_vars, auth_vars, clock_hour, today, expenses, transactions,
                   db_expenses, db_transactions, next_id, settings>>

\* EncryptedDatabase.update_expense(expense_id, user_id, name, amount, is_fixed)
DbUpdateExpense(user_id, expense_id, e) ==
    LET err == UpdateExpenseValidation(e.name, e.amount)
        nothing == e.name = None /\ e.amount = None /\ e.is_fixed = None
    IN  /\ db_expenses' = IF err # NoError \/ nothing THEN db_expenses
                          ELSE update_expense(db_expenses, expense_id, user_id,
                                              e.name, e.amount, e.is_fixed)
        /\ call' = [op |-> "db.update_expense", user |-> user_id,
                    args |-> [expense_id |-> expense_id, fields |-> e],
                    ret |-> IF err = NoError THEN Ok(None)
                            ELSE Raise("ValueError", err)]
        /\ UNCHANGED <<api_vars, auth_vars, clock_hour, today, expenses, transactions,
                       db_transactions, next_id, settings>>

\* EncryptedDatabase.delete_expense(expense_id, user_id)
DbDeleteExpense(user_id, expense_id) ==
    /\ db_expenses' = delete_expense(db_expenses, expense_id, user_id)
    /\ call' = [op |-> "db.delete_expense", user |-> user_id,
                args |-> expense_id, ret |-> Ok(None)]
    /\ UNCHANGED <<api_vars, auth_vars, clock_hour, today, expenses, transactions,
                   db_transactions, next_id, settings>>

\* Two users working on the same store, each also with the ids of the
\* other's rows.  At most MaxRows rows are ever inserted, over both tables.
NextScoping ==
    \/ \E u \in Users, k \in SettingKeyInputs :
          \E v \in SettingValueInputs(k) : DbSetSetting(u, k, v)
    \/ \E u \in Users, k \in SettingKeyInputs : DbGetSetting(u, k)
    \/ /\ next_id.expenses + next_id.transactions < MaxRows + 2
       /\ \/ \E u \in Users, e \in DbExpenseInputs : DbAddExpense(u, e)
          \/ \E u \in Users, t \in PurchaseInputs : DbAddTransaction(u, t)
    \/ \E u \in Users : DbGetExpenses(u)
    \/ \E u \in Users, id \in 1..MaxRows : DbGetExpenseById(u, id)
    \/ \E u \in Users, id \in 1..MaxRows, e \in UpdateExpenseInputs :
          DbUpdateExpense(u, id, e)
    \/ \E u \in Users, id \in 1..MaxRows : DbDeleteExpense(u, id)
    \/ \E u \in Users, id \in 1..MaxRows : DbDeleteTransaction(u, id)

SpecScoping == Init /\ [][NextScoping]_vars

\* Accounts registered, reset tokens asked for and passwords reset with
\* them as the clock moves on.
NextResetPassword ==
    \/ AdvanceClock(TokenInstants)
    \/ /\ CountAdmitted(ClientIps) < MaxAdmitted
       /\ \/ \E ip \in ClientIps, u \in Usernames : Register(ip, u, "secret1")
          \/ \E ip \in ClientIps, u \in Usernames, p \in Passwords \cup NewPasswords :
                 Login(ip, u, p)
          \/ /\ Len(issued) < MaxTokens
             /\ \E ip \in ClientIps, u \in Usernames \cup {"bob"} : ForgotPassword(ip, u)
    \/ \E token \in TokenInputs, p \in NewPasswords : ResetPassword(token, p)

SpecResetPassword == Init /\ [][NextResetPassword]_vars

\* Adding expenses, to the calculator and to the store.
NextExpenses ==
    \/ \E e \in NamedExpenseInputs : AddExpense(e)
    \/ GetTotalExpenses
    \/ \E u \in LedgerUsers, e \in NamedExpenseInputs : DbAddExpense(u, e)

SpecExpenses == Init /\ [][NextExpenses]_vars

Next == NextEngine \/ NextBinary64 \/ NextSpending \/ NextLedger \/ NextConfigure
           \/ NextTransactions
           \/ NextExpenses \/ NextBoundary
           \/ NextFrame \/ NextRateLimit \/ NextResetTokens \/ NextResetPassword
           \/ NextScoping \/ NextConcurrent

Spec == Init /\ [][Next]_vars

-----------------------------------------------------------------------------
(* Properties of the calculation engine, checked under SpecEngine *)

TotalExpenses == get_total_expenses(expenses)
IsPaycheckCall == call.op = "calculate_paycheck_mode"
IsFixedPoolCall == call.op = "calculate_fixed_pool_mode"
Returned == call.ret.status = "ok"
ValidPaycheckInput ==
    /\ call.args.monthly_income >= 0
    /\ call.args.days_until_paycheck >= 1
    /\ call.args.days_until_paycheck <= 365

\* C1: for every valid paycheck input and every ledger of valid expenses,
\* calculate_paycheck_mode returns daily_limit >= 0, also when
\* remaining_money is negative.
C1_DailyLimitNonNegative ==
    (IsPaycheckCall /\ ValidPaycheckInput) =>
        /\ Returned
        /\ RLe(Zero, call.ret.value.daily_limit)

\* C1 witness: a paycheck call returned with negative remaining money.
C1_Witness ==
    /\ IsPaycheckCall /\ ValidPaycheckInput /\ Returned
    /\ RLt(call.ret.value.remaining_money, Zero)
    /\ call.ret.value.daily_limit = Zero

\* C2: for every valid paycheck input, remaining_money = monthly_income -
\* total_expenses, is_deficit holds exactly when remaining_money < 0, and
\* deficit_amount = max(0, -remaining_money), positive exactly in a deficit.
C2_RemainingAndDeficit ==
    (IsPaycheckCall /\ ValidPaycheckInput) =>
        /\ Returned
        /\ LET v == call.ret.value
               remaining == call.args.monthly_income - TotalExpenses
           IN  /\ v.remaining_money = R(remaining)
               /\ v.is_deficit = (remaining < 0)
               /\ v.deficit_amount = R(IF -remaining > 0 THEN -remaining ELSE 0)
               /\ (v.deficit_amount.n > 0) = v.is_deficit

\* C2 witness: a paycheck call returned a deficit.
C2_Witness ==
    /\ IsPaycheckCall /\ ValidPaycheckInput /\ Returned
    /\ call.ret.value.is_deficit
    /\ call.ret.value.deficit_amount = R(3000)

\* C3: calculate_paycheck_mode raises a validation error if and only if
\* monthly_income < 0 or days_until_paycheck < 1 or days_until_paycheck > 365;
\* an accepted input is returned as given, never clamped into range.
C3_PaycheckValidation ==
    IsPaycheckCall =>
        /\ call.ret.status \in {"ok", "ValueError"}
        /\ (call.ret.status = "ValueError") <=> ~ValidPaycheckInput
        /\ Returned =>
              /\ call.ret.value.days_remaining = call.args.days_until_paycheck
              /\ call.ret.value.total_income = R(call.args.monthly_income)

\* C3 witness: 366 days were rejected.
C3_Witness ==
    /\ IsPaycheckCall
    /\ call.args.monthly_income >= 0
    /\ call.args.days_until_paycheck = 366
    /\ call.ret.status = "ValueError"

\* C4: in fixed-pool mode with total_money = 0, whatever the expenses, the
\* target date and the daily limit given, the call returns out_of_money with
\* months_remaining = days_remaining = daily_limit = 0 and raises no error.
C4_ZeroMoneyFirst ==
    (IsFixedPoolCall /\ call.args.total_money = 0) =>
        /\ Returned
        /\ "out_of_money" \in DOMAIN call.ret.value
        /\ call.ret.value.out_of_money = TRUE
        /\ call.ret.value.months_remaining = Zero
        /\ call.ret.value.days_remaining = Zero
        /\ call.ret.value.daily_limit = Zero

\* C4 witness: no money, a target date that is not in the future, a daily
\* limit that is not positive, and some expenses: the call returned.
C4_Witness ==
    /\ IsFixedPoolCall /\ call.args.total_money = 0
    /\ call.args.target_end_date # None
    /\ DateOf(ValueOf(call.args.target_end_date)) <= today
    /\ call.args.daily_spending_limit # None
    /\ ValueOf(call.args.daily_spending_limit) <= 0
    /\ TotalExpenses > 0
    /\ Returned

IsFallbackCall ==
    /\ IsFixedPoolCall
    /\ call.args.target_end_date = None
    /\ call.args.daily_spending_limit = None

\* C5 as claimed: in the fixed-pool fallback with total_money > 0 and
\* total_expenses > 0 the result satisfies months_remaining = total_money /
\* total_expenses, days_remaining = months_remaining * 30 and daily_limit =
\* total_money / days_remaining.
C5_FallbackFigures ==
    (IsFallbackCall /\ call.args.total_money > 0 /\ TotalExpenses > 0) =>
        /\ Returned
        /\ LET v == call.ret.value
           IN  /\ RMul(v.months_remaining, R(TotalExpenses)) = R(call.args.total_money)
               /\ v.days_remaining = RMul(v.months_remaining, R(30))
               /\ RMul(v.daily_limit, v.days_remaining) = R(call.args.total_money)

\* C6: in the fixed-pool fallback with total_money > 0 and no expenses the
\* call does not raise; months_remaining and days_remaining are the infinite
\* sentinel and daily_limit = 0.
C6_InfiniteRunway ==
    (IsFallbackCall /\ call.args.total_money > 0 /\ TotalExpenses = 0) =>
        /\ Returned
        /\ call.ret.value.months_remaining = INF
        /\ call.ret.value.days_remaining = INF
        /\ call.ret.value.daily_limit = Zero

\* C6 witness: a fallback call with money and no expenses returned.
C6_Witness ==
    /\ IsFallbackCall /\ call.args.total_money > 0 /\ TotalExpenses = 0
    /\ Returned

\* The target-date figure: max(0, (total_money - (total_expenses / 30) * days) / days).
TargetFigure(total_money, total_expenses, days) ==
    LET num == 30 * total_money - total_expenses * days
    IN  IF num > 0 THEN Norm(num, 30 * days) ELSE Zero

\* C7 as claimed: in the target-date variant with total_money > 0, with days =
\* date(target_end_date) - today: days <= 0 raises a validation error;
\* otherwise days_remaining = days, months_remaining = days / 30 and
\* daily_limit = max(0, (total_money - (total_expenses / 30) * days) / days).
C7_TargetDateFigures ==
    (IsFixedPoolCall /\ call.args.total_money > 0
                     /\ call.args.target_end_date # None) =>
        LET days == DateOf(ValueOf(call.args.target_end_date)) - today
        IN  IF days <= 0
            THEN call.ret.status = "ValueError"
            ELSE /\ Returned
                 /\ call.ret.value.days_remaining = R(days)
                 /\ call.ret.value.months_remaining = Norm(days, 30)
                 /\ call.ret.value.daily_limit =
                        TargetFigure(call.args.total_money, TotalExpenses, days)

\* C8: given both target_end_date and daily_spending_limit (and money), the
\* outcome is that of the target-date branch: the same as with no
\* daily_spending_limit at all, a returned daily_limit is the target-date
\* figure, and a non-positive limit raises no error.
C8_TargetDatePrecedence ==
    (IsFixedPoolCall /\ call.args.total_money > 0
                     /\ call.args.target_end_date # None
                     /\ call.args.daily_spending_limit # None) =>
        /\ call.ret = calculate_fixed_pool_mode(expenses, today,
                          call.args.total_money, call.args.target_end_date, None)
        /\ ~(call.ret.status = "ValueError"
             /\ call.ret.msg = "Daily spending limit must be positive")
        /\ Returned =>
              /\ call.ret.value.calculation_mode = "target_date"
              /\ call.ret.value.daily_limit =
                    TargetFigure(call.args.total_money, TotalExpenses,
                        DateOf(ValueOf(call.args.target_end_date)) - today)

\* C8 witness: a call with a future target date and a non-positive daily
\* limit returned a positive target-date figure.
C8_Witness ==
    /\ IsFixedPoolCall /\ call.args.total_money > 0
    /\ call.args.target_end_date # None
    /\ call.args.daily_spending_limit # None
    /\ ValueOf(call.args.daily_spending_limit) <= 0
    /\ TotalExpenses > 0
    /\ Returned
    /\ RLt(Zero, call.ret.value.daily_limit)

\* C9 as claimed: in the daily-cap variant (no target date, money): a limit
\* <= 0 raises a validation error; otherwise the returned daily_limit is the
\* limit given, days_remaining = total_money / daily_spending_limit and
\* months_remaining = days_remaining / 30.
C9_DailyCapFigures ==
    (IsFixedPoolCall /\ call.args.total_money > 0
                     /\ call.args.target_end_date = None
                     /\ call.args.daily_spending_limit # None) =>
        LET limit == ValueOf(call.args.daily_spending_limit)
        IN  IF limit <= 0
            THEN call.ret.status = "ValueError"
            ELSE /\ Returned
                 /\ call.ret.value.daily_limit = R(limit)
                 /\ call.ret.value.days_remaining = Norm(call.args.total_money, limit)
                 /\ RMul(call.ret.value.months_remaining, R(30)) =
                        call.ret.value.days_remaining

-----------------------------------------------------------------------------
(* Properties of the expense ledger, checked under SpecEngine *)

\* The same expenses with every is_fixed flag inverted.
FlipFixed(exps) == [i \in DOMAIN exps |-> [exps[i] EXCEPT !.is_fixed = ~@]]

\* The engine's answer to the last calculation, for a ledger exps.
Recalculated(exps) ==
    IF IsPaycheckCall
    THEN calculate_paycheck_mode(exps, call.args.monthly_income,
                                 call.args.days_until_paycheck)
    ELSE calculate_fixed_pool_mode(exps, today, call.args.total_money,
             call.args.target_end_date, call.args.daily_spending_limit)

\* C12: get_total_expenses returns 0 for an empty ledger, every successful
\* add_expense raises the total by the amount added and a failed one leaves
\* it, so the total is the sum of the amounts added; inverting the is_fixed
\* flags changes neither the total nor the outcome of a calculation.
C12_TotalIsSum ==
    /\ [](call.op = "get_total_expenses" =>
            /\ call.ret.status = "ok"
            /\ expenses = <<>> => call.ret.value = 0
            /\ Len(expenses) = 1 => call.ret.value = expenses[1].amount
            /\ call.ret.value = get_total_expenses(FlipFixed(expenses)))
    /\ []((IsPaycheckCall \/ IsFixedPoolCall) =>
            call.ret = Recalculated(FlipFixed(expenses)))
    /\ [][call'.op = "add_expense" =>
            get_total_expenses(expenses') =
                get_total_expenses(expenses)
                + (IF call'.ret.status = "ok" THEN call'.args.amount ELSE 0)]_vars
    /\ [][call'.op = "get_total_expenses" =>
            call'.ret.value = get_total_expenses(expenses)]_vars

\* C12 witness: the total of a fixed and a variable expense was returned.
C12_Witness ==
    /\ call.op = "get_total_expenses"
    /\ Len(expenses) = 2
    /\ expenses[1].is_fixed /\ ~expenses[2].is_fixed
    /\ call.ret.value = expenses[1].amount + expenses[2].amount

\* The days the system date takes.
ClockDays == StartDay..(StartDay + MaxTicks)

\* The engine's answer to the last calculation, had the system date been d.
RecalculatedOn(d) ==
    IF IsPaycheckCall
    THEN calculate_paycheck_mode(expenses, call.args.monthly_income,
                                 call.args.days_until_paycheck)
    ELSE calculate_fixed_pool_mode(expenses, d, call.args.total_money,
             call.args.target_end_date, call.args.daily_spending_limit)

\* C15 as claimed: an engine call with the same mode, the same parameters and
\* the same expense ledger returns the same result on whatever day it is
\* made: no field of the result depends on the system date.
C15_ClockIndependent ==
    (IsPaycheckCall \/ IsFixedPoolCall) =>
        \A d \in ClockDays : call.ret = RecalculatedOn(d)

\* C18 as claimed: a result of the expenses-based fallback has a field
\* monthly_expenses equal to the sum of the expense amounts (0 without
\* expenses), next to total_money, months_remaining, days_remaining,
\* daily_limit and mode = "fixed_pool".
C18_MonthlyExpensesField ==
    (IsFallbackCall /\ call.args.total_money > 0 /\ Returned) =>
        /\ {"monthly_expenses", "total_money", "months_remaining",
            "days_remaining", "daily_limit", "mode"} \subseteq DOMAIN call.ret.value
        /\ call.ret.value.monthly_expenses = R(TotalExpenses)
        /\ call.ret.value.mode = "fixed_pool"

IsEngineCall ==
    call.op \in {"calculate_paycheck_mode", "calculate_fixed_pool_mode", "get_number"}

\* C17: calculate_paycheck_mode, calculate_fixed_pool_mode and get_number
\* leave the calculator's expense list and transaction list as they are,
\* whether they return or raise; a call that raises yields no result, and an
\* input the validation rejects raises whatever the ledger holds.
C17_EngineFrame ==
    /\ [][IsEngineCall' => (expenses' = expenses /\ transactions' = transactions)]_vars
    /\ [](IsEngineCall =>
            (call.ret.status # "ok") = ("value" \notin DOMAIN call.ret))
    /\ []((IsPaycheckCall /\ ~ValidPaycheckInput) => call.ret.status = "ValueError")
    /\ []((IsFixedPoolCall /\ call.args.total_money < 0) =>
            call.ret.status = "ValueError")

\* C17 witness: a calculation raised a validation error on a calculator that
\* holds expenses and transactions.
C17_Witness ==
    /\ IsEngineCall
    /\ call.ret.status = "ValueError"
    /\ Len(expenses) = 2
    /\ Len(transactions) = 2

-----------------------------------------------------------------------------
(* Properties of the validation of expenses and transactions *)

IsAddExpense == call.op \in {"add_expense", "db.add_expense"}
InvalidExpense(e) ==
    \/ e.amount < 0
    \/ e.amount > 10000000
    \/ Strip(e.name) = <<>>
    \/ Len(e.name) > 200

\* C13 as claimed: adding an expense, to the calculator or to the store,
\* fails with a validation error whenever amount < 0, amount > 10,000,000,
\* the name is empty after trimming or longer than 200 characters; a failed
\* add leaves the stored expenses unchanged; an amount of exactly 10,000,000
\* is accepted.
C13_AddExpenseValidation ==
    /\ []((IsAddExpense /\ InvalidExpense(call.args)) =>
              call.ret.status = "ValueError")
    /\ []((IsAddExpense /\ ~InvalidExpense(call.args)
                        /\ call.args.amount = 10000000) => Returned)
    /\ [][(IsAddExpense' /\ call'.ret.status # "ok") =>
              (expenses' = expenses /\ db_expenses' = db_expenses)]_vars

IsAddTransaction == call.op \in {"add_transaction", "db.add_transaction"}

\* C14 as claimed: every transaction held by the calculator or by the store
\* has amount > 0: adding one with amount 0 or a negative amount is rejected
\* with a validation error and nothing is appended.
C14_PositiveAmounts ==
    /\ \A i \in DOMAIN transactions : transactions[i].amount > 0
    /\ \A r \in db_transactions : r.amount > 0
    /\ (IsAddTransaction /\ call.args.amount <= 0) =>
           call.ret.status = "ValueError"

-----------------------------------------------------------------------------
(* Properties of the day boundary, checked under SpecBoundary *)

\* The instant a row of the transactions table was stamped at.
RowInstant(r) == ServerInstant(r.date[1], r.date[2])
\* The date and the hour of an instant on the clock of a zone.
LocalDate(zone, instant) == WallDate(ToZone(zone, instant))
LocalHour(zone, instant) == WallHour(ToZone(zone, instant))

\* C16 as claimed: for every user timezone, daylight saving changes included,
\* a transaction of the last hour of local day D and one of the first hour
\* of local day D+1 are never counted in the same today total: each is
\* counted exactly when the user's local date is its own local date. The
\* window of the timezone helper covers the rows of the local day.
C16_TodayBoundary ==
    /\ call.op = "db.get_total_spending_today" =>
          \A zone \in VALID_TIMEZONES :
             LET now == ServerInstant(today, clock_hour)
                 mine == {r \in db_transactions : r.user_id = call.user}
                 counted == SpendingTodayRows(db_transactions, call.user, today)
                 edge == {r \in mine : LocalHour(zone, RowInstant(r)) \in {23, 0}}
             IN  /\ \A r \in edge :
                       (r \in counted) <=>
                           (LocalDate(zone, RowInstant(r)) = LocalDate(zone, now))
                 /\ \A r1, r2 \in edge \cap counted :
                       LocalDate(zone, RowInstant(r1)) = LocalDate(zone, RowInstant(r2))
    /\ call.op = "get_user_day_boundaries_utc" =>
          LET zone == validate_timezone(call.args)
              now == ServerInstant(today, clock_hour)
          IN  \A r \in db_transactions :
                 (call.ret.value[1] <= RowInstant(r) /\ RowInstant(r) <= call.ret.value[2])
                     <=> (LocalDate(zone, RowInstant(r)) = LocalDate(zone, now))

-----------------------------------------------------------------------------
(* Properties of the rate limiter, checked under SpecRateLimit *)

\* How many of the timestamps lie in the window of w seconds that starts at a.
Within(stamps, a, w) ==
    LET inside(b) == a <= b /\ b < a + w IN Len(SelectSeq(stamps, inside))

\* No window of w seconds holds more than five of the timestamps.
AtMostFive(stamps, w) == \A i \in DOMAIN stamps : Within(stamps, stamps[i], w) <= 5

IsLimitedCall == call.op \in Endpoints

\* The register and login requests of a client never exceed their limit.
LoginLimitHolds ==
    \A ip \in ClientIps :
        AtMostFive(admitted[ip]["register"] \o admitted[ip]["login"], 60)

\* C19 as claimed: for each client IP and any interleaving of the rate
\* limited endpoints, at most 5 register and login requests are admitted in
\* any window of 60 seconds and at most 5 forgot-password requests in any
\* window of 300 seconds; a request answered 429 is not counted.
C19_RateLimits ==
    /\ [](\A ip \in ClientIps :
            /\ AtMostFive(admitted[ip]["register"] \o admitted[ip]["login"], 60)
            /\ AtMostFive(admitted[ip]["forgot_password"], 300))
    /\ [][(IsLimitedCall' /\ call'.ret.status = 429) =>
            /\ admitted' = admitted
            /\ Len(rate_limit_cache'[call'.ip]) <= Len(rate_limit_cache[call'.ip])]_vars

-----------------------------------------------------------------------------
(* Properties of the reset tokens, checked under SpecResetTokens *)

IsVerify == call.op = "verify_reset_token"
Accepted == IsVerify /\ call.ret.value # None

\* C20: verify_reset_token accepts a token only if generate_reset_token
\* issued it, it was neither invalidated nor found expired before, and at
\* most one hour has passed since it was issued; the username returned is
\* the one it was issued for; a token found expired is removed, and a token
\* that was removed is never stored again.
C20_ResetTokenValidity ==
    /\ [](Accepted =>
            /\ call.args \in DOMAIN issued
            /\ ~issued[call.args].dead
            /\ utc_now - issued[call.args].at <= 3600
            /\ call.ret.value = Some(issued[call.args].username))
    /\ []((IsVerify /\ call.args \in DOMAIN issued
                    /\ utc_now - issued[call.args].at > 3600) =>
            /\ call.ret.value = None
            /\ call.args \notin DOMAIN reset_tokens
            /\ issued[call.args].dead)
    /\ [](\A token \in DOMAIN issued :
            issued[token].dead => token \notin DOMAIN reset_tokens)
    /\ [][\A token \in DOMAIN issued :
            issued[token].dead => issued'[token].dead]_vars

\* C20 witness: a token was accepted exactly one hour after it was issued,
\* while another one had been invalidated.
C20_Witness ==
    /\ Accepted
    /\ utc_now - issued[call.args].at = 3600
    /\ \E token \in DOMAIN issued : issued[token].dead

-----------------------------------------------------------------------------
(* Properties of the spending totals, checked under SpecLedger *)

IsIncome(t) == t.category = Some("income")
NotIncome(t) == ~IsIncome(t)

\* C10 as claimed: an income transaction never contributes to a spending
\* total: the calculator's sums for a day and for a range, the store's sum
\* for today and the today_spending and remaining_today of the current number
\* are what they would be with every income transaction absent.
C10_IncomeExcluded ==
    /\ call.op = "get_today_spending" =>
          call.ret.value =
              get_today_spending(SelectSeq(transactions, NotIncome), today)
    /\ call.op = "get_period_spending" =>
          call.ret.value =
              get_period_spending(SelectSeq(transactions, NotIncome),
                                  call.args.start_date, call.args.end_date)
    /\ call.op = "db.get_total_spending_today" =>
          call.ret.value =
              get_total_spending_today({r \in db_transactions : NotIncome(r)},
                                       call.user, today)
    /\ (call.op = "get_the_number" /\ call.ret.status = 200) =>
          LET absent == get_the_number(settings[call.user], db_expenses,
                            {r \in db_transactions : NotIncome(r)}, call.user, today)
          IN  /\ call.ret.body.today_spending = absent.body.today_spending
              /\ call.ret.body.remaining_today = absent.body.remaining_today

-----------------------------------------------------------------------------
(* Properties of the current number, checked under SpecLedger *)

IsNumberResponse == call.op = "get_the_number" /\ call.ret.status = 200

\* C11: a current number result has remaining_today = daily_limit -
\* today_spending (possibly negative) and is_over_budget exactly when
\* remaining_today < 0, where daily_limit is what the engine computes for the
\* user's stored configuration and expenses and today_spending is the store's
\* sum for today.
C11_RemainingToday ==
    IsNumberResponse =>
        LET b == call.ret.body
            engine == NumberResult(settings[call.user],
                                   get_expenses(db_expenses, call.user), today)
            spent == get_total_spending_today(db_transactions, call.user, today)
        IN  /\ engine.status = "ok"
            /\ b.the_number = engine.value.daily_limit
            /\ b.today_spending = R(spent)
            /\ RAdd(b.remaining_today, b.today_spending) = b.the_number
            /\ b.is_over_budget = RLt(b.the_number, b.today_spending)
            /\ b.is_over_budget = (b.remaining_today.n < 0)

\* C11 witness: a current number with more spent today than the limit.
C11_Witness ==
    /\ IsNumberResponse
    /\ call.ret.body.is_over_budget
    /\ call.ret.body.remaining_today.n < 0
    /\ call.ret.body.the_number.n > 0

-----------------------------------------------------------------------------
(* Properties of the fallback's daily limit, checked under SpecEngine *)

\* C30 as claimed: in the fixed-pool fallback with total_expenses > 0 the call
\* returns daily_limit = total_expenses / 30 for every total_money > 0, so
\* the same call with any other positive total_money returns the same
\* daily_limit.
C30_LimitIndependentOfMoney ==
    (IsFallbackCall /\ call.args.total_money > 0 /\ TotalExpenses > 0) =>
        /\ Returned
        /\ RMul(call.ret.value.daily_limit, R(30)) = R(TotalExpenses)
        /\ \A m \in MoneyInputs :
               m > 0 =>
                   LET other == calculate_fixed_pool_mode(expenses, today, m,
                                                          None, None)
                   IN  /\ other.status = "ok"
                       /\ other.value.daily_limit = call.ret.value.daily_limit

-----------------------------------------------------------------------------
(* Properties of the figures in binary64, checked under SpecBinary64 *)

IsTargetDateCall ==
    /\ IsFixedPoolCall
    /\ Returned
    /\ call.ret.value.calculation_mode = "target_date"

C29_ExpensesOnlyLower ==
    [][call'.op = "add_expense" =>
          /\ F64Le(SumAmounts64(expenses), SumAmounts64(expenses'))
          /\ (IsPaycheckCall /\ Returned) =>
                 F64Le(PaycheckFigures64(expenses', call.args.monthly_income,
                                         call.args.days_until_paycheck).daily_limit,
                       call.ret.value.daily_limit)]_vars

\* C29 witness: a second expense has been added, the total has grown with it
\* and the daily limit for an income of 3000 over 15 days has fallen.
C29_Witness ==
    /\ call.op = "add_expense"
    /\ Returned
    /\ Len(expenses) = 2
    /\ LET before == SubSeq(expenses, 1, 1)
       IN  /\ F64Lt(SumAmounts64(before), SumAmounts64(expenses))
           /\ F64Lt(PaycheckFigures64(expenses, 3000, 15).daily_limit,
                    PaycheckFigures64(before, 3000, 15).daily_limit)

-----------------------------------------------------------------------------
(* Properties of the configuration, checked under SpecLedger and SpecConfigure *)

IsGetTheNumber == call.op = "get_the_number"

\* C24 as claimed: GET /api/number for a user without a configured
\* budget_mode answers with status 400 and the detail "Budget mode not
\* configured. Please configure your budget first.", not with a 500.
C24_UnconfiguredIs400 ==
    (IsGetTheNumber /\ settings[call.user]["budget_mode"] = None) =>
        call.ret = Http(400, "Budget mode not configured. Please configure your budget first.")

\* What the engine returns for a configure_budget body alone.
EngineFor(config, exps, now_day) ==
    IF config.mode = "paycheck"
    THEN calculate_paycheck_mode(exps, ValueOf(config.monthly_income),
                                 ValueOf(config.days_until_paycheck))
    ELSE calculate_fixed_pool_mode(exps, now_day, ValueOf(config.total_money),
                                   config.target_end_date, config.daily_spending_limit)

\* C25: after any sequence of accepted configure_budget calls,
\* get_the_number computes with the last accepted body only: it answers in
\* the mode of that body, with the figures the engine gives for that body's
\* parameters, and in fixed_pool mode with the target_end_date and the
\* daily_spending_limit of that body alone (none when the body has none,
\* whatever an earlier body stored).
C25_LatestConfigurationOnly ==
    (IsGetTheNumber /\ configured[call.user] # <<>>) =>
        LET last == configured[call.user][1]
            expected == EngineFor(last, get_expenses(db_expenses, call.user), today)
        IN  IF expected.status = "ok"
            THEN /\ call.ret.status = 200
                 /\ call.ret.body.mode = last.mode
                 /\ call.ret.body.the_number = expected.value.daily_limit
                 /\ call.ret.body.days_remaining = Get(expected.value, "days_remaining")
                 /\ call.ret.body.total_money = Get(expected.value, "total_money")
                 /\ call.ret.body.total_income = Get(expected.value, "total_income")
            ELSE call.ret.status = 500

\* C25 witness: the body before the last one stored a target date and a
\* daily cap, the last body is a fixed_pool body without either, and the
\* number is the fallback's: the expenses-derived runway of 45 days.
C25_Witness ==
    /\ IsGetTheNumber
    /\ call.ret.status = 200
    /\ Len(configured[call.user]) = 2
    /\ configured[call.user][2].target_end_date # None
    /\ configured[call.user][2].daily_spending_limit # None
    /\ configured[call.user][1].mode = "fixed_pool"
    /\ configured[call.user][1].target_end_date = None
    /\ configured[call.user][1].daily_spending_limit = None
    /\ call.ret.body.days_remaining = Some(R(45))

-----------------------------------------------------------------------------
(* Properties of POST /api/transactions, checked under SpecTransactions *)

\* C26 as claimed: POST /api/transactions returns the transaction the same
\* request created, its id, amount, description, category and date, whatever
\* the ledger holds and whatever date the request gives.
C26_ReturnsCreated ==
    (call.op = "create_transaction" /\ call.ret.status = 201) =>
        LET t == call.args
            b == call.ret.body
        IN  /\ Some(b.id) = call.txn_id
            /\ b.amount = t.amount
            /\ b.description = Strip(t.description)
            /\ b.category = t.category
            /\ t.date # None => b.date = IsoFormat(ValueOf(t.date))

-----------------------------------------------------------------------------
(* Properties of POST /api/auth/reset-password, checked under
   SpecResetPassword *)

\* The reset-password request of a step, and whether its token is stored,
\* unexpired and of a registered user when the request arrives.
IsResetStep == call'.op = "reset_password"
TokenIsGood ==
    LET verified == verify_reset_token(reset_tokens, call'.args.reset_token, utc_now)
    IN  /\ verified.ret # None
        /\ get_user_by_username(db_users, ValueOf(verified.ret)) # None

\* C21: a reset token is single-use.  A reset-password request with a
\* stored, unexpired token T of a registered user succeeds, sets that user's
\* password and takes T out of the stored tokens; every request with a token
\* that is not stored is answered 400 'Invalid or expired reset token'; and
\* a request that does not succeed changes no password.
C21_SingleUseToken ==
    [][IsResetStep =>
          /\ TokenIsGood =>
                 /\ call'.ret.status = 200
                 /\ call'.args.reset_token \notin DOMAIN reset_tokens'
          /\ call'.args.reset_token \notin DOMAIN reset_tokens =>
                 call'.ret = Http(400, "Invalid or expired reset token")
          /\ call'.ret.status # 200 => db_users' = db_users]_vars

-----------------------------------------------------------------------------
(* Properties of POST /api/auth/register, checked under SpecRateLimit *)

\* C22: no two stored users share a username, and a register request the
\* rate limiter lets through for a username that already exists answers 400
\* and creates no user.
C22_UniqueUsernames ==
    /\ [](\A i, j \in DOMAIN db_users :
             db_users[i].username = db_users[j].username => i = j)
    /\ [][(/\ call'.op = "register"
           /\ call'.ret.status # 429
           /\ get_user_by_username(db_users, call'.args.username) # None)
          => (call'.ret.status = 400 /\ db_users' = db_users)]_vars

-----------------------------------------------------------------------------
(* Properties of the store's scoping by user, checked under SpecScoping *)

\* What the store holds for a user.
DataOf(table, expense_rows, transaction_rows, user_id) ==
    [settings |-> table[user_id],
     expenses |-> {r \in expense_rows : r.user_id = user_id},
     transactions |-> {r \in transaction_rows : r.user_id = user_id}]

\* The rows an answer of the store carries.
RowsReturned(c) ==
    IF c.op = "db.get_expenses" THEN {c.ret.value[i] : i \in DOMAIN c.ret.value}
    ELSE IF c.op = "db.get_expense_by_id" /\ c.ret.value # None
    THEN {ValueOf(c.ret.value)}
    ELSE {}

\* C23: a call of the store made with user id A leaves the settings,
\* expenses and transactions of every other user B as they were, and what it
\* returns is A's: the rows are rows of A and a setting is A's value for the
\* key, also when A passes the id of one of B's rows.
C23_ScopedPerUser ==
    [][call'.op # "none" =>
          LET A == call'.user
          IN  /\ \A B \in Users \ {A} :
                     DataOf(settings', db_expenses', db_transactions', B)
                         = DataOf(settings, db_expenses, db_transactions, B)
              /\ \A r \in RowsReturned(call') : r.user_id = A /\ r \in db_expenses
              /\ call'.op = "db.get_setting" =>
                     call'.ret.value = settings[A][call'.args.key]]_vars

\* User 1 has updated, deleted or asked for an expense by the id of a row of
\* user 2, whose settings differ from those of user 1.
C23_Witness ==
    /\ call.op \in {"db.update_expense", "db.delete_expense", "db.get_expense_by_id"}
    /\ call.user = 1
    /\ \E r \in db_expenses :
          /\ r.user_id = 2
          /\ r.id = (IF call.op = "db.update_expense" THEN call.args.expense_id
                     ELSE call.args)
    /\ settings[1] # settings[2]

-----------------------------------------------------------------------------
(* Properties of requests served at the same time, checked under
   SpecConcurrent *)

\* What a number request has read is what the configuration holds.
ReadFrom(read, cfg) == \A i \in DOMAIN read : cfg[read[i][1]] = read[i][2]

\* C27: a get_the_number request that overlaps a configure_budget request
\* of the same user has read the mode and the mode's parameters all from the
\* configuration stored before a configure call or all from the one stored
\* after it, never some fields of one and some of the other.
C27_ConsistentConfiguration ==
    (call.op = "get_the_number" /\ call.overlapped) =>
        \E cfg \in call.views : ReadFrom(call.read, cfg)

\* A number request that overlapped the user's second configure request
\* has been answered from a complete configuration.
C27_Witness ==
    /\ call.op = "get_the_number"
    /\ call.overlapped
    /\ call.ret.status = 200
    /\ Len(call.read) > 1
    /\ Len(configured[call.user]) = 2
    /\ configured[call.user][1] # configured[call.user][2]

=============================================================================
